---- MODULE Spec2Model ----
(***************************************************************************)
(* Query plan executor of the gateway (gateway-js/src/executeQueryPlan.ts). *)
(*                                                                         *)
(* One request is modelled: executeQueryPlan interprets a plan tree         *)
(* against subgraph data sources, merges their responses into one shared    *)
(* response tree, collects errors and returns the envelope.                 *)
(*                                                                         *)
(* A step of the model is one turn of the event loop: the synchronous       *)
(* code that runs from an event (the call of executeQueryPlan, the arrival  *)
(* of a subgraph response, the failure of a subgraph call) up to the        *)
(* points where every task is suspended on a subgraph call again.           *)
(***************************************************************************)
EXTENDS Integers, Sequences, FiniteSets, TLC

(***************************************************************************)
(* Dynamic result values (ResultMap = Record<string, any>).  A value is     *)
(* undefined, null, a string, a number, an object (a function from its      *)
(* keys to values) or a list.  A key holding undefined is the same as an absent     *)
(* key for every reader in the source (typeof x === 'undefined', x == null, *)
(* isDefined), so objects never store Undef.                                *)
(***************************************************************************)
Undef == [t |-> "undef"]

Null == [t |-> "null"]

Str(s) == [t |-> "str", s |-> s]

Obj(f) == [t |-> "obj", o |-> f]

Lst(l) == [t |-> "list", l |-> l]

Num(n) == [t |-> "num", n |-> n]

EmptyObj == Obj(<<>>)

IsNullish(v) == v.t \in {"undef", "null"}

\* v as a condition
Truthy(v) ==
    /\ ~IsNullish(v)
    /\ v # Str("")
    /\ ~(v.t = "num" /\ v.n = 0)

\* Elements of a response path: a field name or an array index (0-based, as
\* in the source).  The plan's "for each element" marker is Fld("@").
Fld(s) == [f |-> s]

Idx(i) == [i |-> i]

IsFld(e) == "f" \in DOMAIN e

At == Fld("@")

\* value[key] of the source
Get(v, k) == IF v.t = "obj" /\ k \in DOMAIN v.o THEN v.o[k] ELSE Undef

\* value[i] of the source, i counted from 0
Elem(v, i) == IF v.t = "list" /\ (i + 1) \in 1..Len(v.l) THEN v.l[i + 1] ELSE Undef

\* value[key] = x of the source (x = Undef leaves the key undefined)
Put(v, k, x) ==
    IF x = Undef
    THEN Obj([j \in (DOMAIN v.o) \ {k} |-> v.o[j]])
    ELSE Obj([j \in (DOMAIN v.o) \cup {k} |-> IF j = k THEN x ELSE v.o[j]])

RECURSIVE ValueAt(_, _)
\* The value that the concrete path ref reaches from v.
ValueAt(v, ref) ==
    IF ref = <<>> THEN v
    ELSE IF IsFld(Head(ref)) THEN ValueAt(Get(v, Head(ref).f), Tail(ref))
    ELSE ValueAt(Elem(v, Head(ref).i), Tail(ref))

RECURSIVE SetAt(_, _, _)
\* v with the value at the concrete path ref replaced by x: the effect, on
\* the tree that holds it, of mutating the object the path refers to.
SetAt(v, ref, x) ==
    IF ref = <<>> THEN x
    ELSE IF IsFld(Head(ref))
    THEN Put(v, Head(ref).f, SetAt(Get(v, Head(ref).f), Tail(ref), x))
    ELSE Lst([v.l EXCEPT ![Head(ref).i + 1] = SetAt(@, Tail(ref), x)])

(***************************************************************************)
(* deepMerge (utilities/deepMerge): mappings combine keys recursively,      *)
(* lists of equal length combine element-wise, otherwise the later value    *)
(* wins; null replaces undefined but does not overwrite non-null.           *)
(***************************************************************************)
RECURSIVE MergeValue(_, _)
MergeValue(target, source) ==
    IF source = Undef THEN target
    ELSE IF source = Null THEN (IF target = Undef THEN Null ELSE target)
    ELSE IF target.t = "obj" /\ source.t = "obj"
    THEN Obj([k \in (DOMAIN target.o) \cup (DOMAIN source.o) |->
                IF k \in DOMAIN source.o
                THEN MergeValue(Get(target, k), source.o[k])
                ELSE target.o[k]])
    ELSE IF target.t = "list" /\ source.t = "list" /\ Len(target.l) = Len(source.l)
    THEN Lst([i \in 1..Len(target.l) |-> MergeValue(target.l[i], source.l[i])])
    ELSE source

\* deepMerge(target, source): the value of target after the call.  Nothing is
\* merged from a null or undefined source.
deepMerge(target, source) ==
    IF IsNullish(source) THEN target ELSE MergeValue(target, source)

(***************************************************************************)
(* Cursor data.  The source holds references into the response tree; the    *)
(* model holds the concrete path of each referenced value:                  *)
(*   DRef(p)      the object or list living at p in the tree                *)
(*   DFlat(items) the fresh array built by flatMap, whose items are DRef,   *)
(*                DNull or DUndef (a null or undefined element is a value,  *)
(*                not a reference)                                          *)
(*   DThrow       the move raised an exception                              *)
(***************************************************************************)
DUndef == [k |-> "undef"]

DNull == [k |-> "null"]

DThrow == [k |-> "throw"]

DRef(p) == [k |-> "ref", p |-> p]

DFlat(items) == [k |-> "flat", items |-> items]

\* The reference to (or the null/undefined value of) what lives at p.
ToData(tree, p) ==
    LET v == ValueAt(tree, p)
    IN  IF v = Undef THEN DUndef ELSE IF v = Null THEN DNull ELSE DRef(p)

\* Array.isArray(data)
IsArrayData(tree, d) ==
    \/ d.k = "flat"
    \/ d.k = "ref" /\ ValueAt(tree, d.p).t = "list"

\* The elements of an array-valued data, in order.
DataElements(tree, d) ==
    IF d.k = "flat" THEN d.items
    ELSE [j \in 1..Len(ValueAt(tree, d.p).l) |-> ToData(tree, d.p \o <<Idx(j - 1)>>)]

RECURSIVE flattenResultsAtPath(_, _, _)
RECURSIVE FlatMapFrom(_, _, _, _)
\* One turn of flatMap: r is what the callback returned for an element and
\* more the items of the elements after it.  An array result is spliced in
\* (one level); any other result, null and undefined included, is one item.
FlatMapSplice(tree, r, more) ==
    IF r.k = "throw" \/ more.k = "throw" THEN DThrow
    ELSE IF IsArrayData(tree, r) THEN DFlat(DataElements(tree, r) \o more.items)
    ELSE DFlat(<<r>> \o more.items)

\* value.flatMap(element => flattenResultsAtPath(element, rest)) from the
\* j-th element on
FlatMapFrom(tree, elems, rest, j) ==
    IF j > Len(elems) THEN DFlat(<<>>)
    ELSE FlatMapSplice(tree, flattenResultsAtPath(tree, elems[j], rest),
                       FlatMapFrom(tree, elems, rest, j + 1))

flattenResultsAtPath(tree, value, path) ==
    IF path = <<>> THEN value
    ELSE IF value.k \in {"undef", "null", "throw"} THEN value
    ELSE LET current == Head(path)
             rest == Tail(path)
         IN  IF current = At
             THEN IF IsArrayData(tree, value)
                  THEN FlatMapFrom(tree, DataElements(tree, value), rest, 1)
                  ELSE DThrow   \* value.flatMap is not a function
             ELSE IF ~IsFld(current) \/ IsArrayData(tree, value)
                  THEN DThrow   \* the two asserts
                  ELSE flattenResultsAtPath(
                           tree, ToData(tree, value.p \o <<current>>), rest)

\* A cursor is [path, data]; fullResult is the one response tree of the
\* request.  NoCursor is the undefined cursor, CursorThrow an exception.
NoCursor == [k |-> "none"]

CursorThrow == [k |-> "throw"]

Cursor(path, data) == [k |-> "cursor", path |-> path, data |-> data]

\* The cursor that moveIntoCursor makes of the flattened data
CursorOf(path, data) ==
    IF data.k = "throw" THEN CursorThrow
    ELSE IF data.k \in {"undef", "null"} THEN NoCursor
    ELSE Cursor(path, data)

moveIntoCursor(tree, cursor, pathInCursor) ==
    CursorOf(cursor.path \o pathInCursor,
             flattenResultsAtPath(tree, cursor.data, pathInCursor))

(***************************************************************************)
(* Error-path hydration.                                                    *)
(***************************************************************************)
\* The outcome of a call that may throw: the exception (v is what the call
\* left behind) or the value it returned
Raised(v) == [threw |-> TRUE, v |-> v]

Returned(v) == [threw |-> FALSE, v |-> v]

RECURSIVE generateHydratedPaths(_, _, _)
RECURSIVE HydrateElements(_, _, _, _)
\* Fault: the paths of an element come after those of the elements after it.
HydrateJoinReversed(one, more) ==
    IF one.threw \/ more.threw THEN Raised(<<>>) ELSE Returned(more.v \o one.v)

\* The paths of one element followed by those of the elements after it
HydrateJoin(one, more) ==
    IF one.threw \/ more.threw THEN Raised(<<>>) ELSE Returned(one.v \o more.v)

\* The loop over data.entries() from index j (counted from 1) on.
HydrateElements(parent, path, data, j) ==
    IF j > Len(data.l) THEN Returned(<<>>)
    ELSE HydrateJoin(
             generateHydratedPaths(parent \o <<Idx(j - 1)>>, path, data.l[j]),
             HydrateElements(parent, path, data, j + 1))

\* The paths pushed to result, in order (parent is copied at each push).
generateHydratedPaths(parent, path, data) ==
    IF IsNullish(data) THEN Returned(<<>>)
    ELSE IF path = <<>> THEN Returned(<<parent>>)
    ELSE IF Head(path) = At
    THEN IF data.t = "list"
         THEN HydrateElements(parent, Tail(path), data, 1)
         ELSE Raised(<<>>)   \* assert(Array.isArray(data))
    ELSE IF IsFld(Head(path))
    THEN IF data.t = "list"
         THEN HydrateElements(parent, path, data, 1)
         ELSE IF data.t # "obj" THEN Raised(<<>>)   \* `head in data` on a primitive
         ELSE IF Head(path).f \in DOMAIN data.o
              THEN generateHydratedPaths(
                       parent \o <<Head(path)>>, Tail(path), data.o[Head(path).f])
              ELSE Returned(<<>>)
    ELSE Raised(<<>>)   \* assert(false, unknown path part)

(***************************************************************************)
(* The supergraph schema, as far as doesTypeConditionMatch reads it.        *)
(***************************************************************************)
SchemaObjectTypes == {"User", "Product"}

SchemaInterfaceTypes == {"Node"}

SchemaUnionTypes == {}

\* schema.isSubType(abstractType, maybeSubType)
SchemaIsSubType(abstractType, maybeSubType) ==
    abstractType = "Node" /\ maybeSubType = "User"

doesTypeConditionMatch(typeCondition, typename) ==
    IF typeCondition = typename THEN TRUE
    ELSE IF typename \notin SchemaObjectTypes \cup SchemaInterfaceTypes \cup SchemaUnionTypes
    THEN FALSE
    ELSE IF typeCondition \notin SchemaObjectTypes \cup SchemaInterfaceTypes \cup SchemaUnionTypes
    THEN FALSE
    ELSE IF typeCondition \in SchemaInterfaceTypes \cup SchemaUnionTypes
    THEN /\ typename \in SchemaObjectTypes \cup SchemaInterfaceTypes
         /\ SchemaIsSubType(typeCondition, typename)
    ELSE FALSE

(***************************************************************************)
(* Rewrites.  A step of a rewrite path is a field name, Fld(name), or a     *)
(* type condition "... on T", On(T).                                        *)
(***************************************************************************)
On(T) == [on |-> T]

IsOn(e) == "on" \in DOMAIN e

TypeNameMetaFieldDef == "__typename"

\* Input rewrites are [path, setValueTo]; an absent list and an empty list
\* behave alike in updateRewrites, so both are the empty sequence.
RECURSIVE UpdateRewritesFrom(_, _, _, _)
\* The map over the rewrites from the j-th on, with the completeRewrite
\* assigned so far.
UpdateRewritesFrom(rewrites, pathElement, j, acc) ==
    IF j > Len(rewrites) THEN acc
    ELSE LET r == rewrites[j]
         IN  IF r.path # <<>> /\ Head(r.path) = pathElement
             THEN IF Tail(r.path) = <<>>
                  THEN UpdateRewritesFrom(rewrites, pathElement, j + 1,
                           [acc EXCEPT !.completeRewrite = r.setValueTo])
                  ELSE UpdateRewritesFrom(rewrites, pathElement, j + 1,
                           [acc EXCEPT !.updated =
                               Append(@, [r EXCEPT !.path = Tail(r.path)])])
             ELSE UpdateRewritesFrom(rewrites, pathElement, j + 1, acc)

\* updateRewrites: the undefined result is [updated |-> <<>>,
\* completeRewrite |-> Undef], which every caller reads the same way.
updateRewrites(rewrites, pathElement) ==
    UpdateRewritesFrom(rewrites, pathElement, 1,
                       [updated |-> <<>>, completeRewrite |-> Undef])

\* Selections of a requires: a field [name, selections] (selections <<>> for
\* none) or an inline fragment [typeCondition, selections].
Field(name, selections) ==
    [kind |-> "Field", name |-> name, typeCondition |-> "", selections |-> selections]

InlineFragment(typeCondition, selections) ==
    [kind |-> "InlineFragment", name |-> "", typeCondition |-> typeCondition,
     selections |-> selections]

\* Fault: a selected field that is undefined is not taken as a missing input.
NeverMissingInput(selection, value) == FALSE

\* if (source[responseName] === undefined) return null, for a Field
MissingInput(selection, value) == selection.kind = "Field" /\ value = Undef

RECURSIVE executeSelectionSet(_, _, _)
RECURSIVE SelectFrom(_, _, _, _, _)
\* The loop of executeSelectionSet over the selections from the j-th on,
\* with the result built so far; Null when a selected field is undefined.
SelectFrom(source, selections, activeRewrites, j, result) ==
    IF j > Len(selections) THEN result
    ELSE LET selection == selections[j]
             responseName == selection.name
             value == Get(source, responseName)
             updatedRewrites ==
                 updateRewrites(activeRewrites,
                     IF selection.kind = "Field" THEN Fld(responseName)
                     ELSE On(selection.typeCondition))
             typename == Get(source, TypeNameMetaFieldDef)
             \* what the selection's sub-selections yield for v
             sub(v) == executeSelectionSet(v, selection.selections,
                                           updatedRewrites.updated)
             \* result after this turn of the loop
             next ==
                 IF selection.kind = "Field"
                 THEN IF updatedRewrites.completeRewrite # Undef
                      THEN Put(result, responseName, updatedRewrites.completeRewrite)
                      ELSE IF value.t = "list"
                      THEN Put(result, responseName,
                               Lst([i \in 1..Len(value.l) |->
                                       IF selection.selections # <<>>
                                       THEN sub(value.l[i])
                                       ELSE value.l[i]]))
                      ELSE IF selection.selections # <<>>
                      THEN Put(result, responseName, sub(value))
                      ELSE Put(result, responseName, value)
                 ELSE IF selection.typeCondition = "" \/ ~Truthy(typename)
                 THEN result
                 ELSE IF doesTypeConditionMatch(selection.typeCondition, typename.s)
                 THEN deepMerge(result, sub(source))
                 ELSE result
         IN  IF MissingInput(selection, value)
             THEN Null   \* an input is missing: the entity is to be ignored
             ELSE SelectFrom(source, selections, activeRewrites, j + 1, next)

executeSelectionSet(source, selections, activeRewrites) ==
    IF source = Null THEN Null
    ELSE SelectFrom(source, selections, activeRewrites, 1, EmptyObj)

(***************************************************************************)
(* Output rewrites.  fetch.outputRewrites is [has, list]: has = FALSE is    *)
(* the undefined list.  An output rewrite is [path, renameKeyTo].           *)
(*                                                                         *)
(* withFetchRewrites walks references into the fetch result.  A view is     *)
(*   VAt(p)      the value at path p of the fetch result                    *)
(*   VArr(items) a fresh array of views (the result of a map)               *)
(*   VUndef      undefined                                                  *)
(***************************************************************************)
NoRewrites == [has |-> FALSE, list |-> <<>>]

Rewrites(list) == [has |-> TRUE, list |-> list]

VUndef == [k |-> "undef"]

VAt(p) == [k |-> "at", p |-> p]

VArr(items) == [k |-> "arr", items |-> items]

\* The view of the value at p, undefined when there is none.
ViewOf(root, p) == IF ValueAt(root, p) = Undef THEN VUndef ELSE VAt(p)

ViewIsArray(root, view) ==
    \/ view.k = "arr"
    \/ view.k = "at" /\ ValueAt(root, view.p).t = "list"

ViewItems(root, view) ==
    IF view.k = "arr" THEN view.items
    ELSE [j \in 1..Len(ValueAt(root, view.p).l) |-> VAt(view.p \o <<Idx(j - 1)>>)]

\* `obj` as a condition
ViewTruthy(root, view) ==
    \/ view.k = "arr"
    \/ view.k = "at" /\ ~IsNullish(ValueAt(root, view.p))

\* The three callbacks that withFetchRewrites hands to applyOrMapRecursive.
FctTypename(typename) == [op |-> "typename", name |-> typename, to |-> ""]

FctField(p) == [op |-> "field", name |-> p, to |-> ""]

FctRename(removedKey, renameKeyTo) == [op |-> "rename", name |-> removedKey, to |-> renameKeyTo]

\* A result of applyOrMapRecursive: an exception, or the returned view and
\* the fetch result as the callback left it.
FctThrow(root) == [threw |-> TRUE, res |-> VUndef, root |-> root]

FctOk(res, root) == [threw |-> FALSE, res |-> res, root |-> root]

\* fct(elt) for a value that is not an array.
ApplyFct(root, view, fct) ==
    LET elt == ValueAt(root, view.p)
    IN  IF fct.op = "typename"
        THEN IF IsNullish(elt) THEN FctThrow(root)   \* elt[...] of null
             ELSE IF Get(elt, TypeNameMetaFieldDef) = Str(fct.name)
                  THEN FctOk(view, root)
                  ELSE FctOk(VUndef, root)
        ELSE IF fct.op = "field"
        THEN IF IsNullish(elt) THEN FctThrow(root)   \* elt[p] of null
             ELSE FctOk(ViewOf(root, view.p \o <<Fld(fct.name)>>), root)
        ELSE \* typeof elt === 'object' holds of objects and of null
             IF elt.t = "null" THEN FctThrow(root)
             ELSE IF elt.t = "obj"
                  THEN FctOk(VUndef,
                           SetAt(root, view.p,
                               Put(Put(elt, fct.to, Get(elt, fct.name)),
                                   fct.name, Undef)))
                  ELSE FctOk(VUndef, root)

RECURSIVE applyOrMapRecursive(_, _, _)
RECURSIVE MapItemsFrom(_, _, _, _)
RECURSIVE MapItemsAfter(_, _, _, _)
\* The item that one call of the map returned, before those of the calls
\* after it: filter(isDefined) drops an undefined one.
KeepDefined(one, more) ==
    IF more.threw THEN more
    ELSE FctOk(VArr((IF one.res = VUndef THEN <<>> ELSE <<one.res>>) \o more.res.items),
               more.root)

\* The map from the (j + 1)-th item on, once the call for the j-th has
\* returned `one`
MapItemsAfter(one, items, fct, j) ==
    IF one.threw THEN one
    ELSE KeepDefined(one, MapItemsFrom(one.root, items, fct, j + 1))

\* value.map(elt => applyOrMapRecursive(elt, fct)).filter(isDefined) from
\* the j-th item on; res holds the kept items.
MapItemsFrom(root, items, fct, j) ==
    IF j > Len(items) THEN FctOk(VArr(<<>>), root)
    ELSE MapItemsAfter(applyOrMapRecursive(root, items[j], fct), items, fct, j)

\* return res.length === 0 ? undefined : res
MappedOrUndefined(mapped) ==
    IF mapped.threw THEN mapped
    ELSE IF mapped.res.items = <<>> THEN FctOk(VUndef, mapped.root)
    ELSE mapped

applyOrMapRecursive(root, value, fct) ==
    IF ViewIsArray(root, value)
    THEN MappedOrUndefined(MapItemsFrom(root, ViewItems(root, value), fct, 1))
    ELSE ApplyFct(root, value, fct)

\* The name of the key a path step stands for.
StepName(p) == IF IsOn(p) THEN p.on ELSE p.f

RECURSIVE WalkRewrite(_, _, _, _)
\* The loop goes on with what the step returned.
WalkNext(root, next, rewrite, i) ==
    IF next.threw THEN Raised(Undef) ELSE WalkRewrite(root, next.res, rewrite, i)

\* The fetch result after the rename
WalkDone(done) == IF done.threw THEN Raised(Undef) ELSE Returned(done.root)

\* The while loop of withFetchRewrites and the rename that follows it, for
\* one rewrite, from step i (counted from 1) on.
WalkRewrite(root, obj, rewrite, i) ==
    IF ViewTruthy(root, obj) /\ i < Len(rewrite.path)
    THEN WalkNext(root,
                  applyOrMapRecursive(root, obj,
                      IF IsOn(rewrite.path[i])
                      THEN FctTypename(rewrite.path[i].on)
                      ELSE FctField(rewrite.path[i].f)),
                  rewrite, i + 1)
    ELSE IF ViewTruthy(root, obj)
    THEN WalkDone(applyOrMapRecursive(root, obj,
                      FctRename(StepName(rewrite.path[i]), rewrite.renameKeyTo)))
    ELSE Returned(root)

RECURSIVE RewriteFrom(_, _, _)
\* The loop goes on with the fetch result as the rewrite left it.
RewriteNext(one, list, j) == IF one.threw THEN one ELSE RewriteFrom(one.v, list, j)

\* The loop over the rewrites from the j-th on.
RewriteFrom(fetchResult, list, j) ==
    IF j > Len(list) THEN Returned(fetchResult)
    ELSE RewriteNext(WalkRewrite(fetchResult, VAt(<<>>), list[j], 1), list, j + 1)

\* withFetchRewrites mutates fetchResult in place and returns it: v is the
\* fetch result after the call.
withFetchRewrites(fetchResult, rewrites) ==
    IF ~rewrites.has \/ IsNullish(fetchResult) THEN Returned(fetchResult)
    ELSE RewriteFrom(fetchResult, rewrites.list, 1)

RECURSIVE KeepMatching(_, _)
\* rewrites.map(r => r.path[0] === typenameAsFragment ? {...} : undefined)
\*         .filter(isDefined)
KeepMatching(list, typenameAsFragment) ==
    IF list = <<>> THEN <<>>
    ELSE LET r == Head(list)
         IN  (IF r.path # <<>> /\ Head(r.path) = typenameAsFragment
              THEN <<[r EXCEPT !.path = Tail(r.path)]>>
              ELSE <<>>) \o KeepMatching(Tail(list), typenameAsFragment)

\* `... on ${typename}`
TypenameAsFragment(typename) ==
    IF typename.t = "str" THEN On(typename.s) ELSE On("")

\* entity is Undef when the caller indexes past the representations.
filterEntityRewrites(entity, rewrites) ==
    IF ~rewrites.has THEN Returned(NoRewrites)
    ELSE IF IsNullish(entity) THEN Raised(NoRewrites)   \* entity[...] of undefined
    ELSE Returned(Rewrites(KeepMatching(rewrites.list,
             TypenameAsFragment(Get(entity, TypeNameMetaFieldDef)))))

(***************************************************************************)
(* Plan nodes.  A plan is a sequence of nodes; a node names its children    *)
(* by their index in it.                                                    *)
(***************************************************************************)
PlanNode(kind, nodes, path, serviceName, hasRequires, requires, inputRewrites, outputRewrites, variableUsages) ==
    [kind |-> kind, nodes |-> nodes, path |-> path, serviceName |-> serviceName,
     hasRequires |-> hasRequires, requires |-> requires,
     inputRewrites |-> inputRewrites, outputRewrites |-> outputRewrites,
     variableUsages |-> variableUsages]

SequenceNode(nodes) ==
    PlanNode("Sequence", nodes, <<>>, "", FALSE, <<>>, <<>>, NoRewrites, {})

ParallelNode(nodes) ==
    PlanNode("Parallel", nodes, <<>>, "", FALSE, <<>>, <<>>, NoRewrites, {})

FlattenNode(path, node) ==
    PlanNode("Flatten", <<node>>, path, "", FALSE, <<>>, <<>>, NoRewrites, {})

\* A Fetch without requires
RootFetchNode(serviceName, outputRewrites, variableUsages) ==
    PlanNode("Fetch", <<>>, <<>>, serviceName, FALSE, <<>>, <<>>,
             outputRewrites, variableUsages)

\* A Fetch with requires (an entity fetch)
EntityFetchNode(serviceName, requires, inputRewrites, outputRewrites, variableUsages) ==
    PlanNode("Fetch", <<>>, <<>>, serviceName, TRUE, requires, inputRewrites,
             outputRewrites, variableUsages)

\* requires: { __typename id }
RequiresUserKey == <<Field("__typename", <<>>), Field("id", <<>>)>>

\* outputRewrites: [{ path: ["... on User", "username"], renameKeyTo: "login" }]
RenameUsername ==
    Rewrites(<<[path |-> <<On("User"), Fld("username")>>, renameKeyTo |-> "login"]>>)

\* Sequence[ Fetch A "{ users { __typename id } }",
\*           Flatten(["users", "@"], Fetch B requires "{ __typename id }"),
\*           Fetch C "{ me { name } }" ]
UsersPlan(outputRewrites) ==
    << SequenceNode(<<2, 3, 5>>),
       RootFetchNode("A", NoRewrites, {}),
       FlattenNode(<<Fld("users"), At>>, 4),
       EntityFetchNode("B", RequiresUserKey, <<>>, outputRewrites, {}),
       RootFetchNode("C", NoRewrites, {}) >>

\* UsersPlan with the operation of Fetch B using the given variables
UsersPlanWith(variableUsages) ==
    << SequenceNode(<<2, 3, 5>>),
       RootFetchNode("A", NoRewrites, {}),
       FlattenNode(<<Fld("users"), At>>, 4),
       EntityFetchNode("B", RequiresUserKey, <<>>, NoRewrites, variableUsages),
       RootFetchNode("C", NoRewrites, {}) >>

\* Parallel[ Fetch A "{ users { __typename id } }", Fetch C "{ me { name } }" ]
UsersAndMePlan ==
    << ParallelNode(<<2, 3>>),
       RootFetchNode("A", NoRewrites, {}),
       RootFetchNode("C", NoRewrites, {}) >>

\* Parallel[ Fetch C "{ me { name } }", Fetch A "{ users { __typename id } }" ]
MeAndUsersPlan ==
    << ParallelNode(<<2, 3>>),
       RootFetchNode("C", NoRewrites, {}),
       RootFetchNode("A", NoRewrites, {}) >>

\* Sequence[ Parallel[ Fetch A "{ users { __typename id } }",
\*                     Fetch C "{ me { name } }" ],
\*           Fetch D "{ version }" ]
ParallelThenVersionPlan ==
    << SequenceNode(<<2, 5>>),
       ParallelNode(<<3, 4>>),
       RootFetchNode("A", NoRewrites, {}),
       RootFetchNode("C", NoRewrites, {}),
       RootFetchNode("D", NoRewrites, {}) >>

\* Sequence[ Fetch A "{ users { __typename id } }",
\*           Flatten(["users", "@"], Fetch D "{ version }" without requires,
\*               outputRewrites [{ path: ["version"], renameKeyTo: "release" }]) ]
UsersVersionPlan ==
    << SequenceNode(<<2, 3>>),
       RootFetchNode("A", NoRewrites, {}),
       FlattenNode(<<Fld("users"), At>>, 4),
       RootFetchNode("D",
           Rewrites(<<[path |-> <<Fld("version")>>, renameKeyTo |-> "release"]>>), {}) >>

\* Fetch E "{ items { version release } }",
\*     outputRewrites [{ path: ["items", "version"], renameKeyTo: "release" }]
ItemsPlan ==
    << RootFetchNode("E",
           Rewrites(<<[path |-> <<Fld("items"), Fld("version")>>,
                       renameKeyTo |-> "release"]>>), {}) >>

\* Sequence[ Fetch F "{ me { __typename id profile { key } } }",
\*           Flatten(["me"], Fetch B requires
\*               "{ __typename ... on User { id } profile { key } }") ]
ProfilePlan ==
    << SequenceNode(<<2, 3>>),
       RootFetchNode("F", NoRewrites, {}),
       FlattenNode(<<Fld("me")>>, 4),
       EntityFetchNode("B",
           <<Field("__typename", <<>>), InlineFragment("User", <<Field("id", <<>>)>>),
             Field("profile", <<Field("key", <<>>)>>)>>,
           <<>>, NoRewrites, {}) >>

\* Sequence[ Fetch A "{ users { __typename id } }", a node of the given
\* kind that the gateway does not execute (Defer, Condition) ]
UnsupportedPlan(kind) ==
    << SequenceNode(<<2, 3>>),
       RootFetchNode("A", NoRewrites, {}),
       PlanNode(kind, <<>>, <<>>, "", FALSE, <<>>, <<>>, NoRewrites, {}) >>

\* A request: the plan (root 0 when queryPlan.node is absent), the names in
\* the service map and the names of the variables the client provided.
Scenario(nodes, root, serviceMap, variables) ==
    [nodes |-> nodes, root |-> root, serviceMap |-> serviceMap, variables |-> variables]

Scenarios ==
    << Scenario(UsersPlan(NoRewrites), 1, {"A", "B", "C"}, {}),
       Scenario(UsersPlan(Rewrites(<<>>)), 1, {"A", "B", "C"}, {}),
       Scenario(UsersPlan(RenameUsername), 1, {"A", "B", "C"}, {}),
       Scenario(UsersPlan(NoRewrites), 1, {"A", "C"}, {}),
       Scenario(UsersAndMePlan, 1, {"A", "B", "C"}, {}),
       Scenario(<<>>, 0, {"A", "B", "C"}, {}),
       Scenario(UnsupportedPlan("Defer"), 1, {"A", "B", "C"}, {}),
       Scenario(UnsupportedPlan("Condition"), 1, {"A", "B", "C"}, {}),
       Scenario(MeAndUsersPlan, 1, {"A", "B", "C"}, {}),
       Scenario(ParallelThenVersionPlan, 1, {"A", "C", "D"}, {}),
       Scenario(UsersPlanWith({"representations"}), 1, {"A", "B", "C"}, {"representations"}),
       Scenario(UsersPlanWith({}), 1, {"A", "B", "C"}, {"representations"}),
       Scenario(UsersVersionPlan, 1, {"A", "D"}, {}),
       Scenario(ItemsPlan, 1, {"E"}, {}),
       Scenario(ProfilePlan, 1, {"B", "F"}, {}) >>

(***************************************************************************)
(* State of one request.                                                    *)
(***************************************************************************)
VARIABLES
    scenario,           \* the request being served (an index of Scenarios)
    phase,              \* where executeQueryPlan stands
    pc,                 \* per plan node: where its executeNode call stands
    cursor,             \* per plan node: the currentCursor it was called with
    request,            \* per Fetch node: the locals of executeFetch
    fullResult,         \* the response tree (unfilteredData)
    errors,             \* context.errors
    trace,              \* per plan node: the trace node its call returned
    nonFtv1ErrorPaths,  \* requestContext.metrics.nonFtv1ErrorPaths
    result,             \* the envelope returned by executeQueryPlan
    startTree,          \* history: the response tree when the node's call began
    doneTree,           \* history: the response tree when the node's call returned
    last,               \* history: the latest subgraph answer and the state it found
    cancelled           \* environment: the client has cancelled the request

vars == <<scenario, phase, pc, cursor, request, fullResult, errors, trace,
          nonFtv1ErrorPaths, result, startTree, doneTree, last, cancelled>>

Nodes == Scenarios[scenario].nodes

NodeIds == 1..Len(Nodes)

Node(n) == Nodes[n]

Children(n) == Node(n).nodes

\* The node whose call awaits the call of n (0 for the root)
Parent(n) ==
    IF \E p \in NodeIds : \E j \in 1..Len(Children(p)) : Children(p)[j] = n
    THEN CHOOSE p \in NodeIds : \E j \in 1..Len(Children(p)) : Children(p)[j] = n
    ELSE 0

\* A response path that may be absent
NoPath == [has |-> FALSE, p |-> <<>>]

SomePath(p) == [has |-> TRUE, p |-> p]

\* A GraphQLError of context.errors: its message, its path, the
\* extensions.serviceName ("" when it has none) and the path of its
\* originalError (the subgraph's error).
GraphQLError(message, path, serviceName, originalPath) ==
    [message |-> message, path |-> path, serviceName |-> serviceName,
     originalPath |-> originalPath]

\* An Error thrown by the executor's own code
ThrownError(message) == GraphQLError(message, NoPath, "", NoPath)

NoRequest ==
    [sent |-> FALSE, entities |-> <<>>, extracted |-> <<>>, representations |-> <<>>,
     representationToEntity |-> <<>>, variables |-> {}]

\* The state that the executor's code reads and writes, as one record.
Machine ==
    [pc |-> pc, cursor |-> cursor, request |-> request, fullResult |-> fullResult,
     errors |-> errors, trace |-> trace, nonFtv1ErrorPaths |-> nonFtv1ErrorPaths,
     startTree |-> startTree, doneTree |-> doneTree]

\* executeNode returns the trace node `kind` for n.
Return(s, n, kind) ==
    [s EXCEPT !.pc[n] = "done", !.trace[n] = kind, !.doneTree[n] = s.fullResult]

\* executeNode rejects for n.
Reject(s, n) == [s EXCEPT !.pc[n] = "threw"]

\* Fault: the Fetch case lets the exception through.
RethrowFetchError(s, n, message) == Reject(s, n)

\* The catch of executeNode's Fetch case: the exception is pushed to
\* context.errors and the fetch trace node is returned.
CatchFetchError(s, n, message) ==
    Return([s EXCEPT !.errors = Append(@, ThrownError(message))], n, "fetch")

(***************************************************************************)
(* executeFetch up to the subgraph call.                                    *)
(***************************************************************************)
\* entities: the cursor's data without its null and undefined elements, or
\* the one value the cursor points at
CollectEntities(tree, data) ==
    IF IsArrayData(tree, data)
    THEN LET kept == SelectSeq(DataElements(tree, data), LAMBDA d : d.k = "ref")
         IN  [i \in 1..Len(kept) |-> kept[i].p]
    ELSE <<data.p>>

\* Fault: every extraction is taken as a representation.
AnyRepresentation(representation) == TRUE

\* representation && representation[TypeNameMetaFieldDef.name]
IsRepresentation(representation) ==
    Truthy(representation) /\ Truthy(Get(representation, TypeNameMetaFieldDef))

RECURSIVE CollectRepresentations(_, _, _)
\* The entities.forEach from the j-th entity on (index j - 1 in the source)
CollectRepresentations(extracted, j, acc) ==
    IF j > Len(extracted) THEN acc
    ELSE IF IsRepresentation(extracted[j])
    THEN CollectRepresentations(extracted, j + 1,
             [representations |-> Append(acc.representations, extracted[j]),
              representationToEntity |-> Append(acc.representationToEntity, j - 1)])
    ELSE CollectRepresentations(extracted, j + 1, acc)

\* The call of service.process: the request is on its way and executeFetch
\* is suspended.
sendOperation(s, n, req) ==
    [s EXCEPT !.pc[n] = "waiting", !.request[n] = [req EXCEPT !.sent = TRUE]]

\* The variables of the outgoing request: the declared usages that the
\* client provided
CollectVariables(fetch) == fetch.variableUsages \cap Scenarios[scenario].variables

\* The locals of executeFetch for a Fetch without requires
RootRequest(fetch, entities) ==
    [sent |-> FALSE, entities |-> entities, extracted |-> <<>>,
     representations |-> <<>>, representationToEntity |-> <<>>,
     variables |-> CollectVariables(fetch)]

\* The locals of executeFetch for a Fetch with requires
EntityRequest(fetch, entities, extracted, built) ==
    [sent |-> FALSE, entities |-> entities, extracted |-> extracted,
     representations |-> built.representations,
     representationToEntity |-> built.representationToEntity,
     variables |-> CollectVariables(fetch)]

\* executeSelectionSet(supergraphSchema, entity, requires, inputRewrites) of
\* every entity
ExtractRepresentations(tree, fetch, entities) ==
    [i \in 1..Len(entities) |->
        executeSelectionSet(ValueAt(tree, entities[i]), fetch.requires,
                            fetch.inputRewrites)]

\* Fault: the collected variables are not looked at.
SendRepresentationsUnchecked(s, n, req) ==
    IF Len(req.representations) < 1 THEN Return([s EXCEPT !.request[n] = req], n, "fetch")
    ELSE sendOperation(s, n,
             [req EXCEPT !.variables = @ \cup {"representations"}])

\* The requires branch once the representations are built
SendRepresentations(s, n, req) ==
    IF Len(req.representations) < 1 THEN Return([s EXCEPT !.request[n] = req], n, "fetch")
    ELSE IF "representations" \in req.variables
    THEN CatchFetchError([s EXCEPT !.request[n] = req], n,
                         "Variables cannot contain key representations")
    ELSE sendOperation(s, n,
             [req EXCEPT !.variables = @ \cup {"representations"}])

\* The requires branch once every entity has been extracted
BuildRepresentations(s, n, entities, extracted) ==
    SendRepresentations(s, n,
        EntityRequest(Node(n), entities, extracted,
            CollectRepresentations(extracted, 1,
                [representations |-> <<>>, representationToEntity |-> <<>>])))

\* executeFetch once the entities are collected
FetchEntities(s, n, entities) ==
    IF Len(entities) < 1
    THEN Return([s EXCEPT !.request[n] = RootRequest(Node(n), entities)], n, "fetch")
    ELSE IF ~Node(n).hasRequires
    THEN sendOperation(s, n, RootRequest(Node(n), entities))
    ELSE BuildRepresentations(s, n, entities,
             ExtractRepresentations(s.fullResult, Node(n), entities))

\* Fault: the entities are collected before the service is looked up.
executeFetchEntitiesFirst(s, n, currentCursor) ==
    IF Len(CollectEntities(s.fullResult, currentCursor.data)) < 1
    THEN Return(s, n, "fetch")
    ELSE IF Node(n).serviceName \notin Scenarios[scenario].serviceMap
    THEN CatchFetchError(s, n, "Couldn't find service")
    ELSE FetchEntities(s, n, CollectEntities(s.fullResult, currentCursor.data))

executeFetch(s, n, currentCursor) ==
    IF Node(n).serviceName \notin Scenarios[scenario].serviceMap
    THEN CatchFetchError(s, n, "Couldn't find service")
    ELSE FetchEntities(s, n, CollectEntities(s.fullResult, currentCursor.data))

(***************************************************************************)
(* executeNode: the call for node n with currentCursor, run until it        *)
(* returns, rejects or is suspended on a subgraph call.                     *)
(***************************************************************************)
RECURSIVE executeNode(_, _, _)
RECURSIVE SequenceLoop(_, _, _)
RECURSIVE SequenceAwait(_, _, _)
RECURSIVE ParallelMap(_, _, _)

\* Fault: the loop does not await the j-th child.
SequenceNoAwait(s, n, j) == SequenceLoop(s, n, j + 1)

\* await executeNode(childNode) for the j-th child of Sequence node n, in
\* the state s that the child's call left
SequenceAwait(s, n, j) ==
    IF s.pc[Children(n)[j]] = "done" THEN SequenceLoop(s, n, j + 1)
    ELSE IF s.pc[Children(n)[j]] = "threw" THEN Reject(s, n)
    ELSE [s EXCEPT !.pc[n] = "waiting"]

\* The for loop of the Sequence case from the j-th child on: a child that
\* has not been called is called, and the loop goes on once it has returned.
SequenceLoop(s, n, j) ==
    IF j > Len(Children(n)) THEN Return(s, n, "sequence")
    ELSE SequenceAwait(IF s.pc[Children(n)[j]] = "idle"
                       THEN executeNode(s, Children(n)[j], s.cursor[n])
                       ELSE s,
                       n, j)

\* Fault: the call of a child is made only once the call before it has
\* settled, so only the first child is called at once.
ParallelMapSerial(s, n, j) ==
    IF j > 1 THEN s
    ELSE executeNode(s, Children(n)[j], s.cursor[n])

\* Fault: the Parallel case returns as soon as one child has returned.
ParallelAwaitAny(s, n) ==
    IF \E j \in 1..Len(Children(n)) : s.pc[Children(n)[j]] = "threw"
    THEN Reject(s, n)
    ELSE IF \E j \in 1..Len(Children(n)) : s.pc[Children(n)[j]] = "done"
    THEN Return(s, n, "parallel")
    ELSE [s EXCEPT !.pc[n] = "waiting"]

\* node.nodes.map(...) of the Parallel case: every child is called, in order.
ParallelMap(s, n, j) ==
    IF j > Len(Children(n)) THEN s
    ELSE ParallelMap(executeNode(s, Children(n)[j], s.cursor[n]), n, j + 1)

\* Promise.all over the children's calls
ParallelAwait(s, n) ==
    IF \E j \in 1..Len(Children(n)) : s.pc[Children(n)[j]] = "threw"
    THEN Reject(s, n)
    ELSE IF \A j \in 1..Len(Children(n)) : s.pc[Children(n)[j]] = "done"
    THEN Return(s, n, "parallel")
    ELSE [s EXCEPT !.pc[n] = "waiting"]

\* The Flatten case once its child's call has been made
FlattenAwait(s, n) ==
    IF s.pc[Children(n)[1]] = "done" THEN Return(s, n, "flatten")
    ELSE IF s.pc[Children(n)[1]] = "threw" THEN Reject(s, n)
    ELSE [s EXCEPT !.pc[n] = "waiting"]

\* The call of executeNode is entered: history records the tree it finds.
Enter(s, n, currentCursor) ==
    [s EXCEPT !.cursor[n] = currentCursor, !.startTree[n] = s.fullResult]

\* Fault: a path that resolves to no cursor is taken as an error.
FlattenIntoStrict(s, n, moved) ==
    IF moved \in {CursorThrow, NoCursor} THEN Reject(s, n)
    ELSE FlattenAwait(executeNode(s, Children(n)[1], moved), n)

\* The Flatten case once moveIntoCursor has returned or raised
FlattenInto(s, n, moved) ==
    IF moved = CursorThrow THEN Reject(s, n)
    ELSE FlattenAwait(executeNode(s, Children(n)[1], moved), n)

\* The switch of executeNode
ExecuteKind(s, n, currentCursor) ==
    IF currentCursor = NoCursor THEN Return(s, n, "empty")
    ELSE IF Node(n).kind = "Sequence" THEN SequenceLoop(s, n, 1)
    ELSE IF Node(n).kind = "Parallel" THEN ParallelAwait(ParallelMap(s, n, 1), n)
    ELSE IF Node(n).kind = "Flatten"
    THEN FlattenInto(s, n, moveIntoCursor(s.fullResult, currentCursor, Node(n).path))
    ELSE IF Node(n).kind = "Fetch" THEN executeFetch(s, n, currentCursor)
    ELSE Reject(s, n)   \* Defer, Condition: assert(false, ...)

executeNode(s, n, currentCursor) ==
    ExecuteKind(Enter(s, n, currentCursor), n, currentCursor)

\* The continuation of the suspended call of n after one of its children's
\* calls has returned or rejected.
ResumeNode(s, n) ==
    IF Node(n).kind = "Sequence" THEN SequenceLoop(s, n, 1)
    ELSE IF Node(n).kind = "Parallel" THEN ParallelAwait(s, n)
    ELSE FlattenAwait(s, n)

RECURSIVE Settle(_, _)
\* The call of p has run on to s: if it has returned or rejected, so do the
\* calls that await it.
SettleOn(s, p) == IF s.pc[p] \in {"done", "threw"} THEN Settle(s, p) ELSE s

\* The call of n has returned or rejected: the calls that await it, up to
\* the root, run on until each is suspended again.
Settle(s, n) ==
    IF Parent(n) = 0 \/ s.pc[Parent(n)] # "waiting" THEN s
    ELSE SettleOn(ResumeNode(s, Parent(n)), Parent(n))

(***************************************************************************)
(* executeFetch from the subgraph's answer on.                              *)
(***************************************************************************)
\* A subgraph response: data (Undef when absent) and errors ([has, list]);
\* an error of the list is [message, path].  Trace capture is off and no
\* response carries an ftv1 extension.
NoErrors == [has |-> FALSE, list |-> <<>>]

SomeErrors(list) == [has |-> TRUE, list |-> list]

Response(data, errs) == [data |-> data, errors |-> errs]

\* hydratedPaths[errorPath[1]] ?? [], followed by errorPath.slice(2)
HydratedErrorPath(hydrated, errorPath) ==
    IF hydrated.threw THEN Raised(NoPath)
    ELSE Returned(SomePath(
             (IF (errorPath.p[2].i + 1) \in 1..Len(hydrated.v)
              THEN hydrated.v[errorPath.p[2].i + 1]
              ELSE <<>>)
             \o SubSeq(errorPath.p, 3, Len(errorPath.p))))

\* The function returned by makeLazyErrorPathGenerator(fetch, cursor),
\* applied to errorPath.  hydratedPaths is built from the response tree as
\* it is when the first error is mapped; the tree does not change while the
\* errors of one response are mapped.
makeLazyErrorPathGenerator(tree, fetch, currentCursor, errorPath) ==
    IF fetch.hasRequires /\ errorPath.has /\ Len(errorPath.p) >= 2
       /\ ~IsFld(errorPath.p[2])
    THEN HydratedErrorPath(generateHydratedPaths(<<>>, currentCursor.path, tree),
                           errorPath)
    ELSE IF errorPath.has THEN Returned(SomePath(currentCursor.path \o errorPath.p))
    ELSE Returned(NoPath)

\* downstreamServiceError, given the generated path (the error code is not
\* modelled)
downstreamServiceError(originalError, serviceName, path) ==
    GraphQLError(IF originalError.message = ""
                 THEN "Error while fetching subquery from service"
                 ELSE originalError.message,
                 path, serviceName, originalError.path)

\* The errors of the response are pushed to context.errors with the
\* generated paths, and their paths to the metrics.
PushErrors(s, fetch, list, generated) ==
    IF \E i \in 1..Len(generated) : generated[i].threw THEN Raised(s)
    ELSE Returned([s EXCEPT
             !.errors = @ \o [i \in 1..Len(list) |->
                 downstreamServiceError(list[i], fetch.serviceName, generated[i].v)],
             !.nonFtv1ErrorPaths = @ \o [i \in 1..Len(list) |->
                 [subgraph |-> fetch.serviceName, path |-> list[i].path]]])

\* sendOperation from the return of service.process on
ReceiveOperation(s, n, response) ==
    IF ~response.errors.has THEN Returned(s)
    ELSE PushErrors(s, Node(n), response.errors.list,
             [i \in 1..Len(response.errors.list) |->
                 makeLazyErrorPathGenerator(s.fullResult, Node(n), s.cursor[n],
                                            response.errors.list[i].path)])

RECURSIVE MergeIntoEach(_, _, _, _, _)
\* Fault: the rewritten data replaces the entity instead of being merged
\* into it.
MergeRewrittenOver(tree, entities, rewritten, rewrites, j) ==
    IF rewritten.threw THEN Raised(tree)
    ELSE MergeIntoEach(SetAt(tree, entities[j], rewritten.v),
                       entities, rewritten.v, rewrites, j + 1)

\* deepMerge(entity, rewritten) for the j-th entity, then the loop goes on
MergeRewrittenInto(tree, entities, rewritten, rewrites, j) ==
    IF rewritten.threw THEN Raised(tree)
    ELSE MergeIntoEach(
             SetAt(tree, entities[j], deepMerge(ValueAt(tree, entities[j]), rewritten.v)),
             entities, rewritten.v, rewrites, j + 1)

\* for (const entity of entities) deepMerge(entity, withFetchRewrites(data,
\* outputRewrites)), from the j-th entity on; data is rewritten in place at
\* each turn.
MergeIntoEach(tree, entities, data, rewrites, j) ==
    IF j > Len(entities) THEN Returned(tree)
    ELSE MergeRewrittenInto(tree, entities, withFetchRewrites(data, rewrites),
                            rewrites, j)

\* Fault: the i-th returned entity goes to the i-th entity of the cursor.
EntityAtPosition(req, i) ==
    IF i < Len(req.entities) THEN SomePath(req.entities[i + 1]) ELSE NoPath

\* entities[representationToEntity[i]]: the path of the entity, or <<>>
\* with has = FALSE when the index is undefined
EntityTarget(req, i) ==
    IF i < Len(req.representationToEntity)
       /\ req.representationToEntity[i + 1] < Len(req.entities)
    THEN SomePath(req.entities[req.representationToEntity[i + 1] + 1])
    ELSE NoPath

\* deepMerge(target, source) on the response tree; an undefined target
\* takes nothing from an undefined source, and a key of it cannot be read.
MergeAtTarget(tree, target, source) ==
    IF target.has
    THEN Returned(SetAt(tree, target.p, deepMerge(ValueAt(tree, target.p), source)))
    ELSE IF IsNullish(source) THEN Returned(tree)
    ELSE Raised(tree)

RECURSIVE MergeEntities(_, _, _, _, _)
\* The loop goes on after the merge of the i-th returned entity.
MergeNext(merged, fetch, req, receivedEntities, i) ==
    IF merged.threw THEN merged
    ELSE MergeEntities(merged.v, fetch, req, receivedEntities, i)

\* The i-th turn once withFetchRewrites has returned or raised
MergeRewritten(tree, fetch, req, receivedEntities, i, rewritten) ==
    IF rewritten.threw THEN Raised(tree)
    ELSE MergeNext(MergeAtTarget(tree, EntityTarget(req, i), rewritten.v),
                   fetch, req, receivedEntities, i + 1)

\* The i-th turn once filterEntityRewrites has returned or raised
MergeFiltered(tree, fetch, req, receivedEntities, i, filtered) ==
    IF filtered.threw THEN Raised(tree)
    ELSE MergeRewritten(tree, fetch, req, receivedEntities, i,
             withFetchRewrites(Elem(receivedEntities, i), filtered.v))

\* The number of turns of the merge loop
MergeLoopBound(req) == Len(req.entities)

\* for (let i = 0; i < entities.length; i++) deepMerge(
\*   entities[representationToEntity[i]], withFetchRewrites(receivedEntities[i],
\*   filterEntityRewrites(representations[i], fetch.outputRewrites))), from i on
MergeEntities(tree, fetch, req, receivedEntities, i) ==
    IF i >= MergeLoopBound(req) THEN Returned(tree)
    ELSE MergeFiltered(tree, fetch, req, receivedEntities, i,
             filterEntityRewrites(
                 IF i < Len(req.representations) THEN req.representations[i + 1] ELSE Undef,
                 fetch.outputRewrites))

\* executeFetch returns, or an exception of the merge loop is caught.
FinishMerge(s, n, merged) ==
    IF merged.threw
    THEN CatchFetchError([s EXCEPT !.fullResult = merged.v], n, "TypeError")
    ELSE Return([s EXCEPT !.fullResult = merged.v], n, "fetch")

\* The check of data._entities: an array
EntitiesIsArray(dataReceivedFromService) ==
    /\ Truthy(Get(dataReceivedFromService, "_entities"))
    /\ Get(dataReceivedFromService, "_entities").t = "list"

\* Fault: the number of returned entities is not checked.
AnyEntitiesCount(receivedEntities, req) == TRUE

\* The check of the number of returned entities
EntitiesCountMatches(receivedEntities, req) ==
    Len(receivedEntities.l) = Len(req.representations)

\* The requires branch once data._entities is known to be an array
MergeReceived(s, n, receivedEntities) ==
    IF ~EntitiesCountMatches(receivedEntities, s.request[n])
    THEN CatchFetchError(s, n, "Expected data._entities to contain elements")
    ELSE FinishMerge(s, n,
             MergeEntities(s.fullResult, Node(n), s.request[n], receivedEntities, 0))

\* Fault: a response without an _entities array is taken as an empty one.
ReceiveEntitiesUnchecked(s, n, dataReceivedFromService) ==
    IF ~Truthy(dataReceivedFromService) \/ ~EntitiesIsArray(dataReceivedFromService)
    THEN Return(s, n, "fetch")
    ELSE MergeReceived(s, n, Get(dataReceivedFromService, "_entities"))

\* The requires branch from the return of sendOperation on
ReceiveEntities(s, n, dataReceivedFromService) ==
    IF ~Truthy(dataReceivedFromService) THEN Return(s, n, "fetch")
    ELSE IF ~EntitiesIsArray(dataReceivedFromService)
    THEN CatchFetchError(s, n, "Expected data._entities in response to be an array")
    ELSE MergeReceived(s, n, Get(dataReceivedFromService, "_entities"))

\* executeFetch once sendOperation has returned or raised
AfterOperation(received, n, dataReceivedFromService) ==
    IF received.threw
    THEN CatchFetchError(received.v, n, "expected array when encountering @")
    ELSE IF ~Node(n).hasRequires
    THEN FinishMerge(received.v, n,
             MergeIntoEach(received.v.fullResult, received.v.request[n].entities,
                           dataReceivedFromService, Node(n).outputRewrites, 1))
    ELSE ReceiveEntities(received.v, n, dataReceivedFromService)

\* executeFetch from the return of service.process on
ResumeFetch(s, n, response) ==
    AfterOperation(ReceiveOperation(s, n, response), n, response.data)

(***************************************************************************)
(* The subgraphs: what service.process may answer.                          *)
(***************************************************************************)
MaxUsers == 2

UserKinds == {"full", "noId", "noTypename", "null"}

\* The j-th element of the users list of service A
UserOf(kind, j) ==
    IF kind = "full" THEN Obj([__typename |-> Str("User"), id |-> Num(j)])
    ELSE IF kind = "noId" THEN Obj([__typename |-> Str("User")])
    ELSE IF kind = "noTypename" THEN Obj([id |-> Num(j)])
    ELSE Null

UsersLists ==
    UNION {{Lst([j \in 1..k |-> UserOf(kinds[j], j)]) : kinds \in [1..k -> UserKinds]}
           : k \in 0..MaxUsers}

\* The entity service B returns at index i of _entities
EntityPayload(i) == Obj([email |-> Num(i), username |-> Num(i)])

\* The _entities lists of service B for a request of n representations: up
\* to n + 1 elements, each the payload of its index or null
EntityLists(n) ==
    UNION {{Lst([j \in 1..k |-> IF j \in present THEN EntityPayload(j - 1) ELSE Null])
            : present \in SUBSET (1..k)}
           : k \in 0..(n + 1)}

\* An error of a subgraph response
Boom(path) == [message |-> "boom", path |-> path]

\* The responses of service B to a request of `sent` representations: data
\* with an _entities list, without one, or no data; no error, an error
\* without a path or with an empty one, an error at the _entities field,
\* or an error at an entity
EntityResponses(sent) ==
    {Response(d, e) :
        d \in {Obj([_entities |-> l]) : l \in EntityLists(sent)}
              \cup {Undef, Null, EmptyObj, Obj([_entities |-> Null]),
                    Obj([_entities |-> Str("x")])},
        e \in {NoErrors, SomeErrors(<<Boom(NoPath)>>), SomeErrors(<<Boom(SomePath(<<>>))>>),
               SomeErrors(<<Boom(SomePath(<<Fld("_entities")>>))>>)}
              \cup {SomeErrors(<<Boom(SomePath(<<Fld("_entities"), Idx(i), Fld("email")>>))>>)
                    : i \in 0..(sent - 1)}}

\* The responses of service E: items is null, or a list of one or two
\* elements, each an object with version, with release, with both, or null
ItemsResponses ==
    LET Items == { Obj([version |-> Num(1)]), Obj([release |-> Num(9)]),
                   Obj([version |-> Num(1), release |-> Num(9)]), Null }
    IN  {Response(Obj([items |-> l]), NoErrors) :
            l \in {Null} \cup {Lst(<<a>>) : a \in Items}
                         \cup {Lst(<<a, b>>) : a \in Items, b \in Items}}

\* The responses the service of Fetch node n may give to the request sent
SubgraphResponses(n) ==
    IF Node(n).kind # "Fetch" THEN {}
    ELSE IF Node(n).serviceName = "A"
    THEN {Response(Obj([users |-> l]), NoErrors) : l \in UsersLists}
         \cup {Response(Obj([users |-> Null]), NoErrors),
               Response(Null, SomeErrors(<<Boom(SomePath(<<Fld("users")>>))>>)),
               Response(Null, SomeErrors(<<Boom(SomePath(<<>>))>>)),
               Response(Null, SomeErrors(<<Boom(NoPath)>>))}
    ELSE IF Node(n).serviceName = "B"
    THEN EntityResponses(Len(request[n].representations))
    ELSE IF Node(n).serviceName = "C"
    THEN {Response(Obj([me |-> Obj([name |-> Str("Ada")])]), NoErrors)}
    ELSE IF Node(n).serviceName = "D"
    THEN {Response(Obj([version |-> Num(1)]), NoErrors)}
    ELSE IF Node(n).serviceName = "E"
    THEN ItemsResponses
    ELSE \* F: me with or without id, its profile an object or a list of
         \* objects, with or without key
         {Response(Obj([me |-> me]), NoErrors) : me \in
             {Obj([__typename |-> Str("User"), id |-> Num(1), profile |-> profile]) :
                 profile \in {Obj([key |-> Num(5)]), EmptyObj,
                              Lst(<<Obj([key |-> Num(5)]), EmptyObj>>)}}
             \cup {Obj([__typename |-> Str("User"),
                        profile |-> Obj([key |-> Num(5)])])}}

(***************************************************************************)
(* executeQueryPlan.                                                        *)
(***************************************************************************)
\* The envelope executeQueryPlan resolves to: { data }, { errors, data } or
\* { errors }
NoResult ==
    [returned |-> FALSE, hasData |-> FALSE, data |-> Undef,
     hasErrors |-> FALSE, errors |-> <<>>]

Envelope(hasData, data, hasErrors, errs) ==
    [returned |-> TRUE, hasData |-> hasData, data |-> data,
     hasErrors |-> hasErrors, errors |-> errs]

\* What operationFromDocument and computeResponse may do: return data with
\* or without errors, or throw a GraphQLError, an Error or another value
PostProcessingOutcomes ==
    { [kind |-> "returns", nullified |-> FALSE, postProcessingErrors |-> <<>>],
      [kind |-> "returns", nullified |-> TRUE,
       postProcessingErrors |-> <<ThrownError("post-processing error")>>],
      [kind |-> "GraphQLError", nullified |-> FALSE, postProcessingErrors |-> <<>>],
      [kind |-> "Error", nullified |-> FALSE, postProcessingErrors |-> <<>>],
      [kind |-> "other", nullified |-> FALSE, postProcessingErrors |-> <<>>] }

\* Fault: every exception is answered with the generic message.
PostProcessingCaughtGeneric(outcome) ==
    Envelope(FALSE, Undef, TRUE,
        <<ThrownError("Unexpected error during query plan execution")>>)

\* The envelope of the catch block of the post-processing span
PostProcessingCaught(outcome) ==
    Envelope(FALSE, Undef, TRUE,
        <<ThrownError(IF outcome.kind = "GraphQLError" THEN "thrown GraphQLError message"
                      ELSE IF outcome.kind = "Error" THEN "thrown Error message"
                      ELSE "Unexpected error during query plan execution")>>)

\* Fault: the envelope carries the errors of post-processing only.
PostProcessingErrorsOnly(data, postProcessingErrors, errs) ==
    Envelope(TRUE, data, Len(postProcessingErrors) > 0, postProcessingErrors)

\* Fault: the errors of post-processing are added to the recorded ones.
PostProcessingErrorsAdded(data, postProcessingErrors, errs) ==
    Envelope(TRUE, data, Len(errs \o postProcessingErrors) > 0, errs \o postProcessingErrors)

\* The envelope when computeResponse returned data
PostProcessingReturned(data, postProcessingErrors, errs) ==
    IF Len(errs) = 0 /\ Len(postProcessingErrors) > 0
    THEN Envelope(TRUE, data, TRUE, postProcessingErrors)
    ELSE IF Len(errs) = 0 THEN Envelope(TRUE, data, FALSE, <<>>)
    ELSE Envelope(TRUE, data, TRUE, errs)

\* The post-processing span of executeQueryPlan
PostProcessingResult(outcome, unfilteredData, errs) ==
    IF outcome.kind # "returns" THEN PostProcessingCaught(outcome)
    ELSE PostProcessingReturned(IF outcome.nullified THEN Null ELSE unfilteredData,
                                outcome.postProcessingErrors, errs)

\* { path: [], data: unfilteredData, fullResult: unfilteredData }
RootCursor == Cursor(<<>>, DRef(<<>>))

\* queryPlan.node (0 when absent)
Root == Scenarios[scenario].root

\* Fault: a rejection of the root node's call is taken as its return.
PhaseAfterSwallowed(s) ==
    IF Root = 0 \/ s.pc[Root] \in {"done", "threw"} THEN "postProcessing" ELSE "executing"

\* Where executeQueryPlan stands once the call of the root node stands as
\* in s
PhaseAfter(s) ==
    IF Root = 0 THEN "postProcessing"
    ELSE IF s.pc[Root] = "done" THEN "postProcessing"
    ELSE IF s.pc[Root] = "threw" THEN "rejected"
    ELSE "executing"

\* The executor's state becomes s; executeQueryPlan moves with the call of
\* the root node while it awaits it.
Commit(s) ==
    /\ pc' = s.pc
    /\ cursor' = s.cursor
    /\ request' = s.request
    /\ fullResult' = s.fullResult
    /\ errors' = s.errors
    /\ trace' = s.trace
    /\ nonFtv1ErrorPaths' = s.nonFtv1ErrorPaths
    /\ startTree' = s.startTree
    /\ doneTree' = s.doneTree
    /\ phase' = IF phase \in {"idle", "executing"} THEN PhaseAfter(s) ELSE phase

\* The record of a subgraph's answer
Answer(n, failed, response) ==
    [node |-> n, failed |-> failed, response |-> response,
     treeBefore |-> fullResult, errorsBefore |-> Len(errors)]

NoAnswer ==
    [node |-> 0, failed |-> FALSE, response |-> Response(Undef, NoErrors),
     treeBefore |-> EmptyObj, errorsBefore |-> 0]

Init ==
    /\ scenario \in 1..Len(Scenarios)
    /\ phase = "idle"
    /\ pc = [n \in NodeIds |-> "idle"]
    /\ cursor = [n \in NodeIds |-> NoCursor]
    /\ request = [n \in NodeIds |-> NoRequest]
    /\ fullResult = EmptyObj
    /\ errors = <<>>
    /\ trace = [n \in NodeIds |-> "none"]
    /\ nonFtv1ErrorPaths = <<>>
    /\ result = NoResult
    /\ startTree = [n \in NodeIds |-> Undef]
    /\ doneTree = [n \in NodeIds |-> Undef]
    /\ last = NoAnswer
    /\ cancelled = FALSE

\* executeQueryPlan is called: the plan runs until every task is suspended
\* on a subgraph call, or the plan is done.
Execute ==
    /\ phase = "idle"
    /\ Commit(IF Root = 0 THEN Machine ELSE executeNode(Machine, Root, RootCursor))
    /\ UNCHANGED <<scenario, result, last, cancelled>>

\* The subgraph of Fetch node n answers with response: executeFetch goes on
\* to its end, and so does every call that awaited it.
Respond(n, response) ==
    /\ Node(n).kind = "Fetch"
    /\ pc[n] = "waiting"
    /\ Commit(Settle(ResumeFetch(Machine, n, response), n))
    /\ last' = Answer(n, FALSE, response)
    /\ UNCHANGED <<scenario, result, cancelled>>

\* service.process of Fetch node n rejects.
ProcessFails(n) ==
    /\ Node(n).kind = "Fetch"
    /\ pc[n] = "waiting"
    /\ Commit(Settle(CatchFetchError(Machine, n, "service.process failed"), n))
    /\ last' = Answer(n, TRUE, Response(Undef, NoErrors))
    /\ UNCHANGED <<scenario, result, cancelled>>

\* The post-processing span runs and executeQueryPlan resolves.
PostProcess(outcome) ==
    /\ phase = "postProcessing"
    /\ result' = PostProcessingResult(outcome, fullResult, errors)
    /\ phase' = "returned"
    /\ UNCHANGED <<scenario, pc, cursor, request, fullResult, errors, trace,
                   nonFtv1ErrorPaths, startTree, doneTree, last, cancelled>>

\* The requests whose client may cancel
CancelledRequests == {4, 10}

\* The client cancels the request while subgraph calls are in flight.  The
\* executor holds no handle on the cancellation: none of its state changes.
Cancel ==
    /\ phase = "executing"
    /\ scenario \in CancelledRequests
    /\ ~cancelled
    /\ cancelled' = TRUE
    /\ UNCHANGED <<scenario, phase, pc, cursor, request, fullResult, errors, trace,
                   nonFtv1ErrorPaths, result, startTree, doneTree, last>>

Next ==
    \/ Execute
    \/ \E n \in NodeIds : \E response \in SubgraphResponses(n) : Respond(n, response)
    \/ \E n \in NodeIds : ProcessFails(n)
    \/ \E outcome \in PostProcessingOutcomes : PostProcess(outcome)
    \/ Cancel

Spec == Init /\ [][Next]_vars

(***************************************************************************)
(* Properties.                                                              *)
(***************************************************************************)
RECURSIVE Subtree(_)
\* The plan nodes at and below n
Subtree(n) == {n} \cup UNION {Subtree(Children(n)[j]) : j \in 1..Len(Children(n))}

\* The call of n has not begun: no cursor, no representation, no request
NotStarted(n) == pc[n] = "idle" /\ cursor[n] = NoCursor /\ request[n] = NoRequest

\* The latest subgraph answer is a response to the entity fetch n
AnsweredEntityFetch(n) ==
    last.node = n /\ ~last.failed /\ Node(n).kind = "Fetch" /\ Node(n).hasRequires

\* The response passes the checks of executeFetch: data with an _entities
\* array of as many elements as representations were sent
ValidEntities(n) ==
    /\ Truthy(last.response.data)
    /\ EntitiesIsArray(last.response.data)
    /\ Len(Get(last.response.data, "_entities").l) = Len(request[n].representations)

\* The i-th returned entity (i from 1) after the output rewrites for the
\* i-th representation
RewrittenEntity(n, i) ==
    withFetchRewrites(
        Get(last.response.data, "_entities").l[i],
        filterEntityRewrites(request[n].representations[i],
                             Node(n).outputRewrites).v).v

\* The representations whose source is the e-th entity (e from 1)
RepresentationsOf(n, e) ==
    {i \in 1..Len(request[n].representationToEntity) :
        request[n].representationToEntity[i] = e - 1}

\* C1: for a Sequence node, child k+1 is not started (no cursor, no
\* representation, no request, for it and the nodes below it) until child k
\* has completed with every node below it, and the response tree child k+1
\* starts from is the tree child k left when it completed.
C1_SequenceOrdering ==
    \A q \in NodeIds : Node(q).kind = "Sequence" =>
        \A j \in 1..(Len(Children(q)) - 1) :
            /\ pc[Children(q)[j]] # "done" =>
                   \A d \in Subtree(Children(q)[j + 1]) : NotStarted(d)
            /\ pc[Children(q)[j + 1]] # "idle" =>
                   /\ \A d \in Subtree(Children(q)[j]) : pc[d] = "done"
                   /\ startTree[Children(q)[j + 1]] = doneTree[Children(q)[j]]

C1_Witness ==
    \E q \in NodeIds : Node(q).kind = "Sequence" /\
        \E j \in 1..(Len(Children(q)) - 1) :
            /\ pc[Children(q)[j]] = "done"
            /\ doneTree[Children(q)[j]] # EmptyObj
            /\ pc[Children(q)[j + 1]] = "waiting"
            /\ \E d \in Subtree(Children(q)[j + 1]) : request[d].sent

\* C2: after a response to an entity fetch that passes validation, each
\* entity of the cursor view that is the source of the i-th representation
\* holds the merge of the i-th returned entity, and every other entity of
\* the cursor view is as it was before the response.
C2_MergeIntoSourceEntity ==
    \A n \in NodeIds : AnsweredEntityFetch(n) /\ ValidEntities(n) =>
        \A e \in 1..Len(request[n].entities) :
            ValueAt(fullResult, request[n].entities[e]) =
                IF RepresentationsOf(n, e) # {}
                THEN deepMerge(ValueAt(last.treeBefore, request[n].entities[e]),
                               RewrittenEntity(n, CHOOSE i \in RepresentationsOf(n, e) : TRUE))
                ELSE ValueAt(last.treeBefore, request[n].entities[e])

C2_Witness ==
    \E n \in NodeIds :
        /\ AnsweredEntityFetch(n) /\ ValidEntities(n)
        /\ Len(request[n].representations) = 1
        /\ request[n].representationToEntity[1] = 1
        /\ ValueAt(fullResult, request[n].entities[2])
               # ValueAt(last.treeBefore, request[n].entities[2])

\* C3: for a Fetch with requires, representations and representationToEntity
\* have the same length, and in every request sent each representation has
\* a __typename and no entity whose extraction returned null is the source
\* of a representation.
C3_RepresentationViability ==
    \A n \in NodeIds : Node(n).kind = "Fetch" /\ Node(n).hasRequires =>
        /\ Len(request[n].representations) = Len(request[n].representationToEntity)
        /\ request[n].sent =>
               /\ \A i \in 1..Len(request[n].representations) :
                      Truthy(Get(request[n].representations[i], TypeNameMetaFieldDef))
               /\ \A e \in 1..Len(request[n].extracted) :
                      request[n].extracted[e] = Null => RepresentationsOf(n, e) = {}

C3_Witness ==
    \E n \in NodeIds :
        /\ Node(n).kind = "Fetch" /\ Node(n).hasRequires /\ request[n].sent
        /\ \E e \in 1..Len(request[n].extracted) : request[n].extracted[e] = Null
        /\ \E e \in 1..Len(request[n].extracted) : RepresentationsOf(n, e) # {}

\* The errors of the latest response, as sent by the subgraph
ResponseErrors == last.response.errors.list

\* The k-th error of the latest response has a path [_entities, i, ...tail]
\* with i the index of a representation sent by n
IsEntityErrorPath(n, k) ==
    /\ ResponseErrors[k].path.has
    /\ Len(ResponseErrors[k].path.p) >= 2
    /\ ResponseErrors[k].path.p[1] = Fld("_entities")
    /\ ~IsFld(ResponseErrors[k].path.p[2])
    /\ ResponseErrors[k].path.p[2].i < Len(request[n].representations)

\* The path of the source entity of the representation that the k-th error
\* of the latest response points at, followed by the tail of the error path
SourceEntityPath(n, k) ==
    request[n].entities[
        request[n].representationToEntity[ResponseErrors[k].path.p[2].i + 1] + 1]
    \o SubSeq(ResponseErrors[k].path.p, 3, Len(ResponseErrors[k].path.p))

\* C4: a subgraph error of an entity fetch with path [_entities, i, ...tail]
\* is recorded with the response path of the source entity of the i-th
\* representation sent, followed by tail.
C4_ErrorPathHydration ==
    \A n \in NodeIds : AnsweredEntityFetch(n) =>
        \A k \in 1..Len(ResponseErrors) : IsEntityErrorPath(n, k) =>
            /\ Len(errors) >= last.errorsBefore + k
            /\ errors[last.errorsBefore + k].path = SomePath(SourceEntityPath(n, k))

\* C5: when the _entities array of the response to an entity fetch has not
\* as many elements as representations were sent, the fetch records an
\* error and the response tree is as it was before the response.
C5_EntityCountMismatch ==
    \A n \in NodeIds :
        ( /\ AnsweredEntityFetch(n)
          /\ Truthy(last.response.data)
          /\ EntitiesIsArray(last.response.data)
          /\ ~ValidEntities(n) ) =>
            /\ Len(errors) > last.errorsBefore + Len(ResponseErrors)
            /\ errors[last.errorsBefore + Len(ResponseErrors) + 1]
                   = ThrownError("Expected data._entities to contain elements")
            /\ fullResult = last.treeBefore

C5_Witness ==
    \E n \in NodeIds :
        /\ AnsweredEntityFetch(n)
        /\ EntitiesIsArray(last.response.data)
        /\ Len(Get(last.response.data, "_entities").l) > Len(request[n].representations)
        /\ Get(last.response.data, "_entities").l[1] # Null
        /\ Len(errors) = last.errorsBefore + 1

\* C6 as stated: for every response to an entity fetch in which
\* data._entities is missing or not an array, data itself included, the
\* fetch records an error and merges nothing.
C6_AsStated ==
    \A n \in NodeIds : AnsweredEntityFetch(n) /\ ~EntitiesIsArray(last.response.data) =>
        /\ Len(errors) > last.errorsBefore
        /\ fullResult = last.treeBefore

\* C6: for every response to an entity fetch in which data._entities is
\* missing or not an array, nothing is merged; when data is an object the
\* fetch records the error "Expected data._entities in response to be an
\* array", and when data itself is null or absent the fetch returns and
\* records nothing but the errors of the response.
C6_ExpectedEntitiesArray ==
    \A n \in NodeIds : AnsweredEntityFetch(n) /\ ~EntitiesIsArray(last.response.data) =>
        /\ fullResult = last.treeBefore
        /\ IF Truthy(last.response.data)
           THEN /\ Len(errors) > last.errorsBefore + Len(ResponseErrors)
                /\ errors[last.errorsBefore + Len(ResponseErrors) + 1]
                       = ThrownError("Expected data._entities in response to be an array")
           ELSE Len(errors) = last.errorsBefore + Len(ResponseErrors)

C6_Witness ==
    \E n \in NodeIds :
        /\ AnsweredEntityFetch(n)
        /\ last.response.data = Obj([_entities |-> Str("x")])
        /\ ~last.response.errors.has
        /\ Len(errors) = last.errorsBefore + 1

\* The e-th entity (e from 1) of the cursor view of n, as n found it, lacks
\* a field that requires selects
LacksRequired(n, e) ==
    \E j \in 1..Len(Node(n).requires) :
        /\ Node(n).requires[j].kind = "Field"
        /\ Get(ValueAt(startTree[n], request[n].entities[e]),
               Node(n).requires[j].name) = Undef

C8_SilentDrop ==
    \A n \in NodeIds :
        ( /\ AnsweredEntityFetch(n) /\ ValidEntities(n)
          /\ Len(request[n].representations) < Len(request[n].entities)
          /\ ~last.response.errors.has ) =>
            Len(errors) = last.errorsBefore

\* The service of Fetch node n is not in the service map and n was called
\* with a cursor
ServiceMissing(n) ==
    /\ Node(n).serviceName \notin Scenarios[scenario].serviceMap
    /\ pc[n] # "idle"
    /\ cursor[n] # NoCursor

\* The latest answer to Fetch node n is a failure of service.process
ProcessFailed(n) == last.node = n /\ last.failed

\* The latest answer to Fetch node n is a malformed _entities response
MalformedEntities(n) ==
    AnsweredEntityFetch(n) /\ Truthy(last.response.data) /\ ~ValidEntities(n)

\* The children that follow, in a Sequence, a child with Fetch node n at or
\* below it, once that child has returned (a Parallel above n returns when
\* its other children have returned too)
LaterChildren(n) ==
    {Children(q)[j + 1] : <<q, j>> \in
        {x \in NodeIds \X NodeIds :
            /\ Node(x[1]).kind = "Sequence"
            /\ x[2] < Len(Children(x[1]))
            /\ n \in Subtree(Children(x[1])[x[2]])
            /\ pc[Children(x[1])[x[2]]] = "done"}}

\* C9: an exception raised in a Fetch node (unknown service, failing
\* process call, malformed _entities response) is appended to the error
\* list, executeNode returns the fetch trace node, and the next child of an
\* enclosing Sequence is executed; executeNode never rejects for a Fetch.
C9_FetchErrorsCaptured ==
    \A n \in NodeIds : Node(n).kind = "Fetch" =>
        /\ pc[n] # "threw"
        /\ (ServiceMissing(n) \/ ProcessFailed(n) \/ MalformedEntities(n)) =>
               /\ pc[n] = "done"
               /\ trace[n] = "fetch"
               /\ \A c \in LaterChildren(n) : pc[c] # "idle"
        /\ ServiceMissing(n) =>
               \E i \in 1..Len(errors) : errors[i] = ThrownError("Couldn't find service")
        /\ ProcessFailed(n) =>
               /\ Len(errors) > last.errorsBefore
               /\ errors[last.errorsBefore + 1] = ThrownError("service.process failed")
        /\ MalformedEntities(n) =>
               /\ Len(errors) > last.errorsBefore + Len(ResponseErrors)
               /\ errors[last.errorsBefore + Len(ResponseErrors) + 1].message \in
                      { "Expected data._entities in response to be an array",
                        "Expected data._entities to contain elements" }

C9_Witness ==
    \E n \in NodeIds :
        /\ Node(n).kind = "Fetch"
        /\ ProcessFailed(n)
        /\ LaterChildren(n) # {}
        /\ \A c \in LaterChildren(n) : pc[c] = "waiting" /\ request[c].sent
        /\ errors = <<ThrownError("service.process failed")>>

\* Every error of the request error list is among the errors of the
\* envelope
RecordedErrorsReturned ==
    \A i \in 1..Len(errors) : \E k \in 1..Len(result.errors) : result.errors[k] = errors[i]

\* C10 as stated: every recorded error is among the errors of the envelope
\* returned by executeQueryPlan, whatever post-processing did.
C10_AsStated == result.returned => RecordedErrorsReturned

\* C10: when post-processing returns, every recorded error is among the
\* errors of the envelope; when post-processing throws, the envelope has no
\* data and its errors are the one error made from the exception.
C10_RecordedErrorsInEnvelope ==
    result.returned =>
        IF result.hasData THEN RecordedErrorsReturned
        ELSE /\ result.hasErrors
             /\ Len(result.errors) = 1
             /\ result.errors[1].message \in
                    { "thrown GraphQLError message", "thrown Error message",
                      "Unexpected error during query plan execution" }

C10_Witness ==
    /\ result.returned
    /\ result.hasData
    /\ Len(errors) >= 2
    /\ result.errors = errors

\* C11: when computeResponse returns and at least one error was recorded
\* during plan execution, none of the errors it returned is in the envelope;
\* when no error was recorded and it returned errors, the errors of the
\* envelope are exactly those.
C11_ErrorSuppression ==
    [][\A outcome \in PostProcessingOutcomes :
          PostProcess(outcome) /\ outcome.kind = "returns" =>
              IF Len(errors) >= 1
              THEN \A k \in 1..Len(result'.errors) :
                       \A i \in 1..Len(outcome.postProcessingErrors) :
                           result'.errors[k] # outcome.postProcessingErrors[i]
              ELSE Len(outcome.postProcessingErrors) > 0 =>
                       /\ result'.hasErrors
                       /\ result'.errors = outcome.postProcessingErrors]_vars

\* computeResponse returned errors (it is the outcome that nullifies the
\* data) after a plan execution that recorded errors.
C11_Witness ==
    /\ result.returned
    /\ result.hasData
    /\ result.data = Null
    /\ Len(errors) >= 1
    /\ result.errors = errors

\* The interpreter has executed the Defer or Condition node n
UnsupportedExecuted(n) ==
    Node(n).kind \in {"Defer", "Condition"} /\ pc[n] # "idle" /\ cursor[n] # NoCursor

ExceptionMessage(outcome) ==
    IF outcome.kind = "GraphQLError" THEN "thrown GraphQLError message"
    ELSE IF outcome.kind = "Error" THEN "thrown Error message"
    ELSE ""

FlattenedCursor(n) == moveIntoCursor(startTree[n], cursor[n], Node(n).path)

\* The path of the Flatten node n resolved to no data: no cursor (a null or
\* absent value on the path), or a list without a non-null element
ResolvesToNoData(n) ==
    \/ FlattenedCursor(n) = NoCursor
    \/ /\ FlattenedCursor(n).k = "cursor"
       /\ CollectEntities(startTree[n], FlattenedCursor(n).data) = <<>>

\* C14: when the path of an executed Flatten node resolves to no data, no
\* Fetch below it sends a subgraph request, and executeNode returns the
\* flatten trace node.
C14_EmptyCursorShortCircuit ==
    \A n \in NodeIds :
        ( /\ Node(n).kind = "Flatten"
          /\ pc[n] # "idle"
          /\ cursor[n] # NoCursor
          /\ ResolvesToNoData(n) ) =>
            /\ \A d \in Subtree(n) : ~request[d].sent
            /\ pc[n] = "done"
            /\ trace[n] = "flatten"

C14_Witness ==
    \E n \in NodeIds :
        /\ Node(n).kind = "Flatten"
        /\ pc[n] = "done"
        /\ Get(startTree[n], "users") = Lst(<<Null, Null>>)
        /\ ResolvesToNoData(n)
        /\ trace[Children(n)[1]] = "fetch"

\* The node that follows q in an enclosing Sequence (0 when there is none)
Follower(q) ==
    IF \E p \in NodeIds : \E j \in 1..(Len(Children(p)) - 1) :
           Node(p).kind = "Sequence" /\ Children(p)[j] = q
    THEN LET p == Parent(q)
             j == CHOOSE i \in 1..(Len(Children(p)) - 1) : Children(p)[i] = q
         IN Children(p)[j + 1]
    ELSE 0

\* C15: a Parallel node has returned its trace node only when every child
\* has returned, with the tree every child left contained in the tree the
\* Parallel left; the node that follows it in a Sequence has started only
\* then, on a tree that holds what every child merged.
C15_ParallelWaitsForAll ==
    \A q \in NodeIds :
        Node(q).kind = "Parallel" =>
            /\ (pc[q] = "done" \/ trace[q] = "parallel") =>
                   \A j \in 1..Len(Children(q)) :
                       /\ \A d \in Subtree(Children(q)[j]) : pc[d] = "done"
                       /\ deepMerge(doneTree[q], doneTree[Children(q)[j]]) = doneTree[q]
            /\ (Follower(q) # 0 /\ ~NotStarted(Follower(q))) =>
                   /\ pc[q] = "done"
                   /\ \A j \in 1..Len(Children(q)) :
                       /\ pc[Children(q)[j]] = "done"
                       /\ deepMerge(startTree[Follower(q)], doneTree[Children(q)[j]])
                              = startTree[Follower(q)]

C15_Witness ==
    \E q \in NodeIds :
        /\ Node(q).kind = "Parallel"
        /\ Follower(q) # 0
        /\ pc[Follower(q)] = "waiting"
        /\ Get(startTree[Follower(q)], "me") # Undef
        /\ Get(startTree[Follower(q)], "users") = Lst(<<UserOf("full", 1), UserOf("full", 2)>>)
        /\ request[Follower(q)].sent
        /\ \E j \in 1..Len(Children(q)) : doneTree[Children(q)[j]] # doneTree[q]

\* The Fetch children of the Parallel node q whose service is known
FetchChildren(q) ==
    {c \in {Children(q)[j] : j \in 1..Len(Children(q))} :
        Node(c).kind = "Fetch" /\ Node(c).serviceName \in Scenarios[scenario].serviceMap}

\* C16: once a Parallel node is executed over live entities, the request of
\* every Fetch child has been sent, each from the tree the Parallel found
\* (before any sibling's response was merged), and stays in flight until
\* its own response arrives, whichever sibling is answered meanwhile.
C16_ParallelNotSerialized ==
    \A q \in NodeIds :
        (Node(q).kind = "Parallel" /\ pc[q] # "idle" /\ cursor[q] # NoCursor) =>
            \A c \in FetchChildren(q) :
                /\ request[c].sent
                /\ startTree[c] = startTree[q]
                /\ pc[c] \in {"waiting", "done"}

C16_Witness ==
    \E q \in NodeIds :
        /\ Node(q).kind = "Parallel"
        /\ Cardinality(FetchChildren(q)) >= 2
        /\ pc[Children(q)[1]] = "waiting"
        /\ request[Children(q)[1]].sent
        /\ pc[Children(q)[2]] = "done"
        /\ last.node = Children(q)[2]
        /\ last.treeBefore = startTree[q]
        /\ fullResult # startTree[q]

\* The child of the Parallel node q that fetches from the named service
ChildOf(q, serviceName) ==
    CHOOSE c \in FetchChildren(q) : Node(c).serviceName = serviceName

\* The response tree once child first, then child second, of a Parallel node
\* have been answered
AnsweredInOrder(first, firstResponse, second, secondResponse) ==
    ResumeFetch(ResumeFetch(Machine, first, firstResponse), second, secondResponse).fullResult

\* What a subgraph's data adds to a tree: nothing when there is no data
WithData(tree, data) == IF Truthy(data) THEN deepMerge(tree, data) ELSE tree

\* C17: with the two children of a Parallel node in flight (the users fetch
\* and the me fetch, which write to disjoint paths), whatever the responses,
\* both arrival orders leave the same response tree, and that tree is the
\* same for either order of the children in the plan: the tree the Parallel
\* found with the data of both services merged into it.
C17_ParallelIndependence ==
    \A q \in NodeIds :
        ( /\ Node(q).kind = "Parallel"
          /\ Cardinality(FetchChildren(q)) = 2
          /\ \A c \in FetchChildren(q) : pc[c] = "waiting" ) =>
            \A users \in SubgraphResponses(ChildOf(q, "A")) :
            \A me \in SubgraphResponses(ChildOf(q, "C")) :
                /\ AnsweredInOrder(ChildOf(q, "A"), users, ChildOf(q, "C"), me)
                       = WithData(WithData(startTree[q], users.data), me.data)
                /\ AnsweredInOrder(ChildOf(q, "C"), me, ChildOf(q, "A"), users)
                       = WithData(WithData(startTree[q], users.data), me.data)

C17_Witness ==
    \E q \in NodeIds :
        /\ Node(q).kind = "Parallel"
        /\ Node(Children(q)[1]).serviceName = "C"
        /\ Node(Children(q)[2]).serviceName = "A"
        /\ pc[q] = "done"
        /\ last.node = Children(q)[1]
        /\ last.treeBefore = Obj([users |-> Lst(<<UserOf("full", 1)>>)])
        /\ fullResult = WithData(last.treeBefore, last.response.data)
        /\ Get(fullResult, "me") # Undef

\* C18: once the request is cancelled, no plan node is started, no subgraph
\* request is sent, and what the response tree held is kept.
C18_CancellationStopsExecution ==
    [][cancelled =>
          /\ \A n \in NodeIds : pc[n] = "idle" => pc'[n] = "idle"
          /\ \A n \in NodeIds : ~request[n].sent => ~request'[n].sent
          /\ deepMerge(fullResult', fullResult) = fullResult']_vars

\* The entity fetch n has been executed over a cursor while the client's
\* variables hold one named representations
ExecutedWithRepresentationsVariable(n) ==
    /\ Node(n).kind = "Fetch"
    /\ Node(n).hasRequires
    /\ pc[n] # "idle"
    /\ cursor[n] # NoCursor
    /\ "representations" \in Scenarios[scenario].variables

\* The error of the representations check is in the request error list
ForbiddenVariableRecorded ==
    \E i \in 1..Len(errors) :
        errors[i] = ThrownError("Variables cannot contain key representations")

\* C19 as stated: every entity fetch executed while the client's variables
\* hold one named representations sends no request and records an error,
\* whether or not it lists that name among its variable usages.
C19_AsStated ==
    \A n \in NodeIds :
        ExecutedWithRepresentationsVariable(n) =>
            ~request[n].sent /\ ForbiddenVariableRecorded

\* C19: an entity fetch of a known service that has built at least one
\* representation, executed while the client's variables hold one named
\* representations, sends no request and records the error when it lists
\* that name among its variable usages; when it does not list it, its
\* request is sent and no such error is recorded.
C19_ForbiddenRepresentationsVariable ==
    \A n \in NodeIds :
        ( /\ ExecutedWithRepresentationsVariable(n)
          /\ Node(n).serviceName \in Scenarios[scenario].serviceMap
          /\ Len(request[n].representations) >= 1 ) =>
            IF "representations" \in Node(n).variableUsages
            THEN /\ ~request[n].sent
                 /\ pc[n] = "done"
                 /\ trace[n] = "fetch"
                 /\ ForbiddenVariableRecorded
            ELSE /\ request[n].sent
                 /\ ~ForbiddenVariableRecorded

C19_Witness ==
    \E n \in NodeIds :
        /\ ExecutedWithRepresentationsVariable(n)
        /\ "representations" \in Node(n).variableUsages
        /\ Len(request[n].representations) = 2
        /\ ~request[n].sent
        /\ errors = <<ThrownError("Variables cannot contain key representations")>>

\* C20: no path of an error in the request error list, nor in the envelope,
\* holds the element '@'.
C20_NoSymbolicElementInErrorPaths ==
    /\ \A i \in 1..Len(errors) :
           \A k \in 1..Len(errors[i].path.p) : errors[i].path.p[k] # At
    /\ \A i \in 1..Len(result.errors) :
           \A k \in 1..Len(result.errors[i].path.p) : result.errors[i].path.p[k] # At

\* The steps of a rewrite path before its last one, and the key at the last
FrontOf(path) == SubSeq(path, 1, Len(path) - 1)

RenamedKey(path) == StepName(path[Len(path)])

RECURSIVE ReachedBy(_, _, _)
\* The nodes of v (their paths from at on) that the steps reach: a field
\* step descends, a "... on T" step keeps the nodes of type T, and a list
\* stands for its elements.
ReachedBy(v, at, steps) ==
    IF v.t = "list"
    THEN UNION {ReachedBy(v.l[j], at \o <<Idx(j - 1)>>, steps) : j \in 1..Len(v.l)}
    ELSE IF v.t # "obj" THEN {}
    ELSE IF steps = <<>> THEN {at}
    ELSE IF IsOn(Head(steps))
    THEN (IF Get(v, TypeNameMetaFieldDef) = Str(Head(steps).on)
          THEN ReachedBy(v, at, Tail(steps)) ELSE {})
    ELSE ReachedBy(Get(v, Head(steps).f), at \o <<Fld(Head(steps).f)>>, Tail(steps))

\* In the entity at path target of the response tree, every node of the
\* response data that the steps reach and that holds the key `from` has been
\* merged with that value at key `to` and without the key `from`.
MergedRenamed(target, data, steps, from, to) ==
    \A p \in ReachedBy(data, <<>>, steps) :
        Get(ValueAt(data, p), from) # Undef =>
            /\ Get(ValueAt(fullResult, target \o p), to)
                   = MergeValue(Get(ValueAt(last.treeBefore, target \o p), to),
                                Get(ValueAt(data, p), from))
            /\ Get(ValueAt(fullResult, target \o p), from)
                   = Get(ValueAt(last.treeBefore, target \o p), from)

\* The latest subgraph answer is a response with data to the Fetch node n,
\* which has output rewrites
AnsweredRewritingFetch(n) ==
    /\ last.node = n
    /\ ~last.failed
    /\ Node(n).kind = "Fetch"
    /\ Node(n).outputRewrites.has
    /\ Truthy(last.response.data)

\* C21: after a fetch with an output rewrite that renames key a to b, every
\* node of the response that the rewrite's path reaches and that held a has
\* been merged into the response tree with the value of a at key b and
\* without key a: for a Fetch without requires, into every entity of the
\* cursor view; for an entity fetch, the returned entity into the source
\* entity of its representation (with the rewrites of the representation's
\* type).
C21_RenameRoundTrip ==
    \A n \in NodeIds : AnsweredRewritingFetch(n) =>
        \A k \in 1..Len(Node(n).outputRewrites.list) :
            LET r == Node(n).outputRewrites.list[k]
            IN  IF ~Node(n).hasRequires
                THEN \A e \in 1..Len(request[n].entities) :
                         MergedRenamed(request[n].entities[e], last.response.data,
                                       FrontOf(r.path), RenamedKey(r.path), r.renameKeyTo)
                ELSE ValidEntities(n) =>
                     \A i \in 1..Len(request[n].representations) :
                         (/\ EntityTarget(request[n], i - 1).has
                          /\ Head(r.path) = TypenameAsFragment(
                                 Get(request[n].representations[i], TypeNameMetaFieldDef))) =>
                             MergedRenamed(EntityTarget(request[n], i - 1).p,
                                           Get(last.response.data, "_entities").l[i],
                                           FrontOf(Tail(r.path)), RenamedKey(r.path),
                                           r.renameKeyTo)

\* C22: after a response with data to a Fetch without requires that declares
\* output rewrites, when the rewrites raise no exception, every entity of
\* the cursor view holds what it held before merged with the response after
\* one application of the rewrites.
C22_SameContentInEveryEntity ==
    \A n \in NodeIds :
        ( /\ AnsweredRewritingFetch(n)
          /\ ~Node(n).hasRequires
          /\ ~withFetchRewrites(last.response.data, Node(n).outputRewrites).threw ) =>
            \A e \in 1..Len(request[n].entities) :
                ValueAt(fullResult, request[n].entities[e])
                    = deepMerge(ValueAt(last.treeBefore, request[n].entities[e]),
                                withFetchRewrites(last.response.data,
                                                  Node(n).outputRewrites).v)

\* C23: a subgraph error whose path is missing or is the empty list is
\* recorded with no path.
C23_NoPathForMissingOrEmpty ==
    \A n \in NodeIds :
        (last.node = n /\ ~last.failed /\ Node(n).kind = "Fetch") =>
            \A k \in 1..Len(ResponseErrors) :
                (~ResponseErrors[k].path.has \/ ResponseErrors[k].path.p = <<>>) =>
                    /\ Len(errors) >= last.errorsBefore + k
                    /\ errors[last.errorsBefore + k].path = NoPath

\* This step executes the Fetch node n over a cursor view without a non-null
\* entity
ExecutesWithoutEntities(n) ==
    /\ Node(n).kind = "Fetch"
    /\ pc[n] = "idle"
    /\ pc'[n] # "idle"
    /\ cursor'[n] # NoCursor
    /\ CollectEntities(startTree'[n], cursor'[n].data) = <<>>

\* C24 as stated: a step in which a Fetch node is executed over a cursor
\* view without a non-null entity leaves the request of that node unsent
\* and adds to the error list nothing but the errors of the subgraph
\* response that the step handles, whether or not the node's service is in
\* the service map.
C24_AsStated ==
    [][\A n \in NodeIds : ExecutesWithoutEntities(n) =>
          /\ ~request'[n].sent
          /\ Len(errors') = Len(errors) + Len(last'.response.errors.list)]_vars

\* C24: a Fetch node executed over a cursor view without a non-null entity
\* sends no request and returns the fetch trace node; it adds nothing to the
\* error list when its service is in the service map, and the error of the
\* unknown service when it is not.
C24_SilentAbortForKnownService ==
    [][\A n \in NodeIds : ExecutesWithoutEntities(n) =>
          /\ ~request'[n].sent
          /\ pc'[n] = "done"
          /\ trace'[n] = "fetch"
          /\ IF Node(n).serviceName \in Scenarios[scenario].serviceMap
             THEN Len(errors') = Len(errors) + Len(last'.response.errors.list)
             ELSE /\ Len(errors') = Len(errors) + Len(last'.response.errors.list) + 1
                  /\ errors'[Len(errors')] = ThrownError("Couldn't find service")]_vars

C24_Witness ==
    \E n \in NodeIds :
        /\ Node(n).kind = "Fetch"
        /\ Node(n).hasRequires
        /\ Node(n).serviceName \in Scenarios[scenario].serviceMap
        /\ pc[n] = "done"
        /\ cursor[n] # NoCursor
        /\ CollectEntities(startTree[n], cursor[n].data) = <<>>
        /\ Get(startTree[n], "users") = Lst(<<Null>>)
        /\ ~request[n].sent
        /\ errors = <<>>

RECURSIVE LacksSelected(_, _)
\* A field that the selections select is absent from source, at any depth:
\* a field of source, of the object or of a list element under a selected
\* field, or a field selected by an inline fragment whose type condition
\* the source matches
LacksSelected(source, selections) ==
    \E j \in 1..Len(selections) :
        LET selection == selections[j]
            value == Get(source, selection.name)
        IN  IF selection.kind = "Field"
            THEN \/ value = Undef
                 \/ /\ value.t = "obj"
                    /\ LacksSelected(value, selection.selections)
                 \/ /\ value.t = "list"
                    /\ \E i \in 1..Len(value.l) :
                           value.l[i].t = "obj"
                           /\ LacksSelected(value.l[i], selection.selections)
            ELSE /\ Truthy(Get(source, TypeNameMetaFieldDef))
                 /\ doesTypeConditionMatch(selection.typeCondition,
                                           Get(source, TypeNameMetaFieldDef).s)
                 /\ LacksSelected(source, selection.selections)

\* C25: an entity of the cursor view of an entity fetch for which a field
\* selected by requires is absent from the response tree, at whatever depth
\* of the selection set, is the source of no representation.
C25_AbsentInputDropsEntity ==
    \A n \in NodeIds : Node(n).kind = "Fetch" /\ Node(n).hasRequires =>
        \A e \in 1..Len(request[n].entities) :
            LacksSelected(ValueAt(startTree[n], request[n].entities[e]),
                          Node(n).requires) =>
                RepresentationsOf(n, e) = {}

\* C26: for a Fetch node executed over a cursor, the list that
\* generateHydratedPaths builds for the cursor's path from the response tree
\* as it was when the entities were collected is the list of the entities:
\* one concrete path per non-null entity of the cursor view, in the same
\* order, whatever the representations built from them.
C26_HydratedPathsAlignWithEntities ==
    \A n \in NodeIds :
        ( /\ Node(n).kind = "Fetch"
          /\ pc[n] # "idle"
          /\ cursor[n] # NoCursor
          /\ Node(n).serviceName \in Scenarios[scenario].serviceMap ) =>
            /\ generateHydratedPaths(<<>>, cursor[n].path, startTree[n])
                   = Returned(request[n].entities)
            /\ request[n].entities = CollectEntities(startTree[n], cursor[n].data)
            /\ \A e \in 1..Len(request[n].entities) :
                   ~IsNullish(ValueAt(startTree[n], request[n].entities[e]))

C26_Witness ==
    \E n \in NodeIds :
        /\ AnsweredEntityFetch(n)
        /\ last.treeBefore = startTree[n]
        /\ Get(startTree[n], "users") = Lst(<<UserOf("noId", 1), UserOf("full", 2)>>)
        /\ request[n].entities = <<<<Fld("users"), Idx(0)>>, <<Fld("users"), Idx(1)>>>>
        /\ request[n].representationToEntity = <<1>>

\* Every node of data that the steps reach and that lacks the key `from` is
\* in rewritten as it is in data.
KeptWithoutKey(data, rewritten, steps, from) ==
    \A p \in ReachedBy(data, <<>>, steps) :
        Get(ValueAt(data, p), from) = Undef => ValueAt(rewritten, p) = ValueAt(data, p)

\* C27: when withFetchRewrites returns for the data of a response, every
\* node that a rewrite's path reaches and that lacks the rewrite's source
\* key is as the subgraph sent it, a value at renameKeyTo included (for an
\* entity fetch: every returned entity, under the rewrites of its
\* representation's type).
C27_RewriteLeavesOtherNodes ==
    \A n \in NodeIds : AnsweredRewritingFetch(n) =>
        \A k \in 1..Len(Node(n).outputRewrites.list) :
            LET r == Node(n).outputRewrites.list[k]
            IN  IF ~Node(n).hasRequires
                THEN ~withFetchRewrites(last.response.data, Node(n).outputRewrites).threw =>
                         KeptWithoutKey(last.response.data,
                             withFetchRewrites(last.response.data, Node(n).outputRewrites).v,
                             FrontOf(r.path), RenamedKey(r.path))
                ELSE ValidEntities(n) =>
                     \A i \in 1..Len(request[n].representations) :
                         Head(r.path) = TypenameAsFragment(
                             Get(request[n].representations[i], TypeNameMetaFieldDef)) =>
                             KeptWithoutKey(Get(last.response.data, "_entities").l[i],
                                            RewrittenEntity(n, i),
                                            FrontOf(Tail(r.path)), RenamedKey(r.path))

RECURSIVE NullOnPath(_, _)
\* Below the top of the response data v, the steps meet a null value or a
\* null list element.
NullOnPath(v, steps) ==
    IF v.t = "list"
    THEN \E j \in 1..Len(v.l) : v.l[j] = Null \/ NullOnPath(v.l[j], steps)
    ELSE IF v.t # "obj" \/ steps = <<>> THEN FALSE
    ELSE IF IsOn(Head(steps)) THEN NullOnPath(v, Tail(steps))
    ELSE \/ Get(v, Head(steps).f) = Null
         \/ NullOnPath(Get(v, Head(steps).f), Tail(steps))

\* C28: when the data of a response to a Fetch without requires holds a null
\* value or a null list element along the path of an output rewrite,
\* withFetchRewrites raises no exception, the fetch adds no error of its own
\* to the error list, and every non-null field of the response is merged
\* into every entity of the cursor view.
C28_RewritesNeverFail ==
    \A n \in NodeIds :
        ( /\ AnsweredRewritingFetch(n)
          /\ ~Node(n).hasRequires
          /\ \E k \in 1..Len(Node(n).outputRewrites.list) :
                 NullOnPath(last.response.data,
                            FrontOf(Node(n).outputRewrites.list[k].path)) ) =>
            /\ ~withFetchRewrites(last.response.data, Node(n).outputRewrites).threw
            /\ Len(errors) = last.errorsBefore + Len(ResponseErrors)
            /\ \A e \in 1..Len(request[n].entities) :
               \A key \in DOMAIN last.response.data.o :
                   ~IsNullish(last.response.data.o[key]) =>
                       ~IsNullish(Get(ValueAt(fullResult, request[n].entities[e]), key))

====
